---- MODULE Spec2Model ----
(***************************************************************************)
(* The cartesian-Taylor Laplace kernel (kernel/LaplaceCartesian.hpp) and   *)
(* the M2M dispatcher (include/executor/M2M.hpp).                          *)
(*                                                                         *)
(* `real' values are modelled in exact arithmetic as normalised rationals  *)
(* <<num, den>> (den > 0, gcd(num, den) = 1).  A coefficient vector is a   *)
(* function from slot numbers 0..N-1 to rationals.  A local vector `C'     *)
(* starts with slot 0 assigned and every other slot holding the marker     *)
(* Uninit = <<0, 0>>, which is no rational; every write of Terms<..>       *)
(* replaces one slot, so a slot that was never written stays visible.      *)
(***************************************************************************)
EXTENDS Integers, Sequences, FiniteSets, TLC

\* ------------------------------------------------------------------- state
VARIABLES
  Porder,    \* the expansion order P the kernel is instantiated with
  parent,    \* the tree: parent[b] of every box b but the root 0
  multipole, \* multipole[b], the multipole expansion M of box b
  local,     \* local[b], the local expansion L of box b
  result,    \* the result 4-vector of the target body
  srcs,      \* the sources accumulated so far: <<point, charge, leaf box>>
  shifted,   \* the boxes whose multipole has been shifted into the parent
  calls,     \* the number of kernel calls made in the downward session
  last,      \* the last kernel call: its operator, arguments and the output
             \* vector's contents before the call
  build,     \* the builder call in progress (Terms<0,0,D>::power or getCoef<P>):
             \* its auxiliary vector C, its recursion stack and its slot accesses
  threads,   \* the concurrent invocations: per thread its operator, its boxes,
             \* its private vector C, its position and its loaded value
  has_M2M,   \* ExpansionTraits<Kernel>::has_M2M of the kernel the program uses
  exits      \* the statuses the process has exited with: empty while it runs

vars ==
  <<Porder, parent, multipole, local, result, srcs, shifted, calls, last, build, threads,
    has_M2M, exits>>

\* ------------------------------------------------------------------ bounds
\* Largest expansion order P the kernel is instantiated with.
MaxP == 3
\* Largest number of sources accumulated in one upward pass.
MaxSources == 2
\* Largest number of kernel calls in one downward session.
MaxCalls == 2

\* Evaluation order: the value v is computed first, and only then Body,
\* which reads it (operands before the operation, a statement before the
\* statements that follow it).
Bind(v, Body(_)) == CHOOSE r \in {Body(c) : c \in {v}} : TRUE

\* --------------------------------------------------- exact `real' numbers
RECURSIVE RGcd(_, _)
RGcd(a, b) == IF b = 0 THEN a ELSE RGcd(b, a % b)

RAbs(a) == IF a < 0 THEN -a ELSE a

\* The rational n/d in lowest terms (d # 0).
Rat(n, d) ==
  Bind(<<n, d>>, LAMBDA x :
    Bind(RGcd(RAbs(x[1]), RAbs(x[2])) * (IF x[2] < 0 THEN -1 ELSE 1), LAMBDA g :
      <<x[1] \div g, x[2] \div g>>))

RInt(n) == <<n, 1>>
RZero == <<0, 1>>
ROne == <<1, 1>>

RAdd(a, b) ==
  Bind(<<a, b, RGcd(a[2], b[2])>>, LAMBDA x :
    Rat(x[1][1] * (x[2][2] \div x[3]) + x[2][1] * (x[1][2] \div x[3]),
        (x[1][2] \div x[3]) * x[2][2]))

RNeg(a) == <<-a[1], a[2]>>

RSub(a, b) == RAdd(a, RNeg(b))

RMul(a, b) ==
  Bind(<<a, b, RGcd(RAbs(a[1]), b[2]), RGcd(RAbs(b[1]), a[2])>>, LAMBDA x :
    Rat((x[1][1] \div x[3]) * (x[2][1] \div x[4]),
        (x[1][2] \div x[4]) * (x[2][2] \div x[3])))

\* a / b, b # 0
RDiv(a, b) == RMul(a, Rat(b[2], b[1]))

\* a / k for the int k of `C[..] * dist[2] / nz'
RDivInt(a, k) == RDiv(a, RInt(k))

\* ------------------------------------------------------ Vec<N,real> (Vec.hpp)
\* The zeroed vector of N slots.
VecZero(N) == [i \in 0..(N - 1) |-> RZero]

\* A += B, elementwise over the slots of A.
VecAdd(A, B) == [i \in DOMAIN A |-> RAdd(A[i], B[i])]

\* a - b for points
PtSub(a, b) == (0 :> RSub(a[0], b[0])) @@ (1 :> RSub(a[1], b[1])) @@ (2 :> RSub(a[2], b[2]))

\* The point (x, y, z) with integer coordinates.
Pt(x, y, z) == (0 :> RInt(x)) @@ (1 :> RInt(y)) @@ (2 :> RInt(z))

\* normSq(dist)
normSq(dist) ==
  RAdd(RAdd(RMul(dist[0], dist[0]), RMul(dist[1], dist[1])), RMul(dist[2], dist[2]))

\* The content of a slot of a local vector that has not been assigned: no
\* number (its denominator is 0), so that arithmetic on it is an evaluation
\* error.
Uninit == <<0, 0>>

\* `multipole_type C; C[0] = c0;' and `local_type C; C[0] = c0;' with N slots
LocalVec(N, c0) == [i \in 0..(N - 1) |-> IF i = 0 THEN c0 ELSE Uninit]

\* ------------------------------------------------------------ Monomial index
\* cart_index and factorial compute in `unsigned'; for the orders modelled
\* (P <= 12) no product reaches 2^32, so the arithmetic is that of Nat.
U32(x) == x

\* The mutant of cart_index: the m-block offset taken as m(m-1)/2.
cart_index_m(nx, ny, nz) ==
  U32((U32((nx+ny+nz) * (nx+ny+nz+1) * (nx+ny+nz+2)) \div 6)
      + (U32((ny+nz) * (ny+nz-1)) \div 2) + nz)

\* constexpr unsigned cart_index(nx, ny, nz)
cart_index(nx, ny, nz) ==
  U32((U32((nx+ny+nz) * (nx+ny+nz+1) * (nx+ny+nz+2)) \div 6)
      + (U32((ny+nz) * (ny+nz+1)) \div 2) + nz)

\* constexpr unsigned factorial(k)
RECURSIVE factorial(_)
factorial(k) == IF k <= 1 THEN 1 ELSE U32(k * factorial(k - 1))

\* constexpr unsigned cart_value(nx, ny, nz)
cart_value(nx, ny, nz) == U32(factorial(nx) * factorial(ny) * factorial(nz))

\* Index<nx,ny,nz>::I and ::F
IndexI(nx, ny, nz) == cart_index(nx, ny, nz)
IndexF(nx, ny, nz) == RInt(cart_value(nx, ny, nz))

\* LaplaceCartesian<P>::MTERM and ::LTERM
MTERM(P) == (P * (P+1) * (P+2)) \div 6
LTERM(P) == ((P+1) * (P+2) * (P+3)) \div 6

\* The multi-indices (nx, ny, nz) of total degree lo..hi.
MultiIdx(lo, hi) ==
  {a \in (0..hi) \X (0..hi) \X (0..hi) : a[1] + a[2] + a[3] >= lo /\ a[1] + a[2] + a[3] <= hi}

Deg(a) == a[1] + a[2] + a[3]
Slot(a) == IndexI(a[1], a[2], a[3])

\* ------------------------------------------------------------ Power builder
\* The mutant of Terms_power_z: the division by nz left out.
Terms_power_z_m(C, nx, ny, nz, dist) ==
  [C EXCEPT ![IndexI(nx, ny, nz)] = RMul(C[IndexI(nx, ny, nz - 1)], dist[2])]

\* Terms<nx,ny,nz>::power, the write:  C[I] = C[I(nx,ny,nz-1)] * dist[2] / nz
Terms_power_z(C, nx, ny, nz, dist) ==
  [C EXCEPT ![IndexI(nx, ny, nz)] = RDivInt(RMul(C[IndexI(nx, ny, nz - 1)], dist[2]), nz)]

\* Terms<nx,ny,0>::power, the write:  C[I] = C[I(nx,ny-1,0)] * dist[1] / ny
Terms_power_y(C, nx, ny, dist) ==
  [C EXCEPT ![IndexI(nx, ny, 0)] = RDivInt(RMul(C[IndexI(nx, ny - 1, 0)], dist[1]), ny)]

\* Terms<nx,0,0>::power, the write:  C[I] = C[I(nx-1,0,0)] * dist[0] / nx
Terms_power_x(C, nx, dist) ==
  [C EXCEPT ![IndexI(nx, 0, 0)] = RDivInt(RMul(C[IndexI(nx - 1, 0, 0)], dist[0]), nx)]

\* Terms<nx,ny,nz>::power: the recursion to the preceding multi-index, then
\* the write of this one; Terms<0,0,0>::power does nothing.
RECURSIVE Terms_power(_, _, _, _, _)
Terms_power(nx, ny, nz, C, dist) ==
  CASE nz > 0 -> Terms_power_z(Terms_power(nx, ny + 1, nz - 1, C, dist), nx, ny, nz, dist)
    [] nz = 0 /\ ny > 0 -> Terms_power_y(Terms_power(nx + 1, 0, ny - 1, C, dist), nx, ny, dist)
    [] nz = 0 /\ ny = 0 /\ nx > 0 -> Terms_power_x(Terms_power(0, 0, nx - 1, C, dist), nx, dist)
    [] OTHER -> C

\* ------------------------------------------------------------------- Upward
\* The mutant of M2MTerm: the coefficient read at the source's multi-index.
M2MTerm_m(C, M, ax, ay, az, kx, ky, kz) ==
  RMul(C[IndexI(kx, ky, kz)], M[IndexI(kx, ky, kz)])

\* One term of M2MSum::kernel:  C[Index<a>::I] * M[Index<k>::I]
M2MTerm(C, M, ax, ay, az, kx, ky, kz) ==
  RMul(C[IndexI(ax, ay, az)], M[IndexI(kx, ky, kz)])

\* M2MSum<nx,ny,nz,kx,ky,kz>::kernel(C, M)
RECURSIVE M2MSum(_, _, _, _, _, _, _, _)
M2MSum(nx, ny, nz, kx, ky, kz, C, M) ==
  CASE kz > 0 ->
    RAdd(M2MSum(nx, ny, nz, kx, ky, kz - 1, C, M),
         M2MTerm(C, M, nx - kx, ny - ky, nz - kz, kx, ky, kz))
    [] kz = 0 /\ ky > 0 ->
    RAdd(M2MSum(nx, ny, nz, kx, ky - 1, nz, C, M),
         M2MTerm(C, M, nx - kx, ny - ky, nz, kx, ky, 0))
    [] kz = 0 /\ ky = 0 /\ kx > 0 ->
    RAdd(M2MSum(nx, ny, nz, kx - 1, ny, nz, C, M),
         M2MTerm(C, M, nx - kx, ny, nz, kx, 0, 0))
    [] OTHER -> RZero

\* The mutant of SlotAdd: the slot assigned, not added to.
SlotAdd_m(V, i, v) == [V EXCEPT ![i] = v]

\* MI[i] += v
SlotAdd(V, i, v) == [V EXCEPT ![i] = RAdd(V[i], v)]

\* Upward<nx,ny,nz>::M2M(MI, C, MJ)
RECURSIVE Upward_M2M(_, _, _, _, _, _)
Upward_M2M(nx, ny, nz, MI, C, MJ) ==
  CASE nz > 0 ->
    SlotAdd(Upward_M2M(nx, ny + 1, nz - 1, MI, C, MJ), IndexI(nx, ny, nz),
            M2MSum(nx, ny, nz, nx, ny, nz, C, MJ))
    [] nz = 0 /\ ny > 0 ->
    SlotAdd(Upward_M2M(nx + 1, 0, ny - 1, MI, C, MJ), IndexI(nx, ny, 0),
            M2MSum(nx, ny, 0, nx, ny, 0, C, MJ))
    [] nz = 0 /\ ny = 0 /\ nx > 0 ->
    SlotAdd(Upward_M2M(0, 0, nx - 1, MI, C, MJ), IndexI(nx, 0, 0),
            M2MSum(nx, 0, 0, nx, 0, 0, C, MJ))
    [] OTHER -> MI

\* ------------------------------------------------------- Derivative builder
\* The mutant of DerivativeTerm: the displacement factor left out.
DerivativeTerm_m(n, kx, ky, kz, d, C, dist) ==
  IF d = -1
  THEN RMul(RInt(1 - n), C[IndexI(kx, ky, kz)])
  ELSE RMul(RInt(1 - 2 * n), C[IndexI(kx, ky, kz)])

\* DerivativeTerm<n,kx,ky,kz,d>::kernel(C, dist); d = -1 is the specialisation
\* without the displacement factor.
DerivativeTerm(n, kx, ky, kz, d, C, dist) ==
  IF d = -1
  THEN RMul(RInt(1 - n), C[IndexI(kx, ky, kz)])
  ELSE RMul(RMul(RInt(1 - 2 * n), dist[d]), C[IndexI(kx, ky, kz)])

\* The int value of a C++ bool
B2I(b) == IF b THEN 1 ELSE 0

\* DerivativeSum<nx,ny,nz,kx,ky,kz,flag>::loop(C, dist); the first call has
\* kx = nx, ky = ny, kz = nz, flag = 5.
RECURSIVE DerivativeSum(_, _, _, _, _, _, _, _, _)
DerivativeSum(nx, ny, nz, kx, ky, kz, flag, C, dist) ==
  LET n == nx + ny + nz IN
  CASE flag = 5 /\ kz = 0 -> DerivativeSum(nx, ny, nz, nx, ny, 0, 4, C, dist)
    [] flag = 5 /\ kz # 0 ->
    LET nextflag == 5 - B2I(kz < nz \/ kz = 1)
        dim == IF kz = nz - 1 THEN -1 ELSE 2
    IN  RAdd(DerivativeSum(nx, ny, nz, nx, ny, kz - 1, nextflag, C, dist),
             DerivativeTerm(n, nx, ny, kz - 1, dim, C, dist))
    [] flag = 4 ->
    DerivativeSum(nx, ny, nz, nx, ny, nz, 3 - B2I(ny = 0), C, dist)
    [] flag = 3 ->
    LET nextflag == 3 - B2I(ky < ny \/ ky = 1)
        dim == IF ky = ny - 1 THEN -1 ELSE 1
    IN  RAdd(DerivativeSum(nx, ny, nz, nx, ky - 1, nz, nextflag, C, dist),
             DerivativeTerm(n, nx, ky - 1, nz, dim, C, dist))
    [] flag = 2 ->
    DerivativeSum(nx, ny, nz, nx, ny, nz, 1 - B2I(nx = 0), C, dist)
    [] flag = 1 ->
    LET nextflag == 1 - B2I(kx < nx \/ kx = 1)
        dim == IF kx = nx - 1 THEN -1 ELSE 0
    IN  RAdd(DerivativeSum(nx, ny, nz, kx - 1, ny, nz, nextflag, C, dist),
             DerivativeTerm(n, kx - 1, ny, nz, dim, C, dist))
    [] OTHER -> RZero

\* The mutant of Terms_derivative_w: the division by n left out.
Terms_derivative_w_m(C, nx, ny, nz, dist, invR2) ==
  [C EXCEPT ![IndexI(nx, ny, nz)] =
     RMul(DerivativeSum(nx, ny, nz, nx, ny, nz, 5, C, dist), invR2)]

\* The write of Terms<nx,ny,nz>::derivative:
\*   C[I] = DerivativeSum<nx,ny,nz>::loop(C,dist) / n * invR2
Terms_derivative_w(C, nx, ny, nz, dist, invR2) ==
  [C EXCEPT ![IndexI(nx, ny, nz)] =
     RMul(RDivInt(DerivativeSum(nx, ny, nz, nx, ny, nz, 5, C, dist), nx + ny + nz), invR2)]

\* Terms<nx,ny,nz>::derivative(C, dist, invR2)
RECURSIVE Terms_derivative(_, _, _, _, _, _)
Terms_derivative(nx, ny, nz, C, dist, invR2) ==
  CASE nz > 0 ->
    Terms_derivative_w(Terms_derivative(nx, ny + 1, nz - 1, C, dist, invR2),
                       nx, ny, nz, dist, invR2)
    [] nz = 0 /\ ny > 0 ->
    Terms_derivative_w(Terms_derivative(nx + 1, 0, ny - 1, C, dist, invR2),
                       nx, ny, 0, dist, invR2)
    [] nz = 0 /\ ny = 0 /\ nx > 0 ->
    Terms_derivative_w(Terms_derivative(0, 0, nx - 1, C, dist, invR2),
                       nx, 0, 0, dist, invR2)
    [] OTHER -> C

\* The mutant of Terms_scale_w: the multiplication left out.
Terms_scale_w_m(C, nx, ny, nz) == C

\* The write of Terms<nx,ny,nz>::scale:  C[I] *= Index<nx,ny,nz>::F
Terms_scale_w(C, nx, ny, nz) ==
  [C EXCEPT ![IndexI(nx, ny, nz)] = RMul(@, IndexF(nx, ny, nz))]

\* Terms<nx,ny,nz>::scale(C)
RECURSIVE Terms_scale(_, _, _, _)
Terms_scale(nx, ny, nz, C) ==
  CASE nz > 0 -> Terms_scale_w(Terms_scale(nx, ny + 1, nz - 1, C), nx, ny, nz)
    [] nz = 0 /\ ny > 0 -> Terms_scale_w(Terms_scale(nx + 1, 0, ny - 1, C), nx, ny, 0)
    [] nz = 0 /\ ny = 0 /\ nx > 0 -> Terms_scale_w(Terms_scale(0, 0, nx - 1, C), nx, 0, 0)
    [] OTHER -> C

\* getCoef<P>(C, dist, invR2, invR); the value is C after the call.
getCoef(P, dist, invR2, invR) ==
  Bind(Terms_derivative(0, 0, P, LocalVec(LTERM(P), invR), dist, invR2),
       LAMBDA C : Terms_scale(0, 0, P, C))

\* ----------------------------------------------------------------- Downward
\* The mutant of M2LTerm: the coefficient read at the multipole's multi-index.
M2LTerm_m(C, M, nx, ny, nz, kx, ky, kz) ==
  RMul(M[IndexI(kx, ky, kz)], C[IndexI(kx, ky, kz)])

\* One term of M2LSum::kernel:  M[Index<k>::I] * L[Index<n+k>::I]
M2LTerm(C, M, nx, ny, nz, kx, ky, kz) ==
  RMul(M[IndexI(kx, ky, kz)], C[IndexI(nx + kx, ny + ky, nz + kz)])

\* M2LSum<nx,ny,nz,kx,ky,kz>::kernel(C, M)
RECURSIVE M2LSum(_, _, _, _, _, _, _, _)
M2LSum(nx, ny, nz, kx, ky, kz, C, M) ==
  CASE kz > 0 ->
    RAdd(M2LSum(nx, ny, nz, kx, ky + 1, kz - 1, C, M),
         M2LTerm(C, M, nx, ny, nz, kx, ky, kz))
    [] kz = 0 /\ ky > 0 ->
    RAdd(M2LSum(nx, ny, nz, kx + 1, 0, ky - 1, C, M),
         M2LTerm(C, M, nx, ny, nz, kx, ky, 0))
    [] kz = 0 /\ ky = 0 /\ kx > 0 ->
    RAdd(M2LSum(nx, ny, nz, 0, 0, kx - 1, C, M),
         M2LTerm(C, M, nx, ny, nz, kx, 0, 0))
    [] OTHER -> RZero

\* The mutant of LocalTerm: the local read at the coefficient's multi-index.
LocalTerm_m(C, LJ, nx, ny, nz, kx, ky, kz) ==
  RMul(C[IndexI(kx, ky, kz)], LJ[IndexI(kx, ky, kz)])

\* One term of LocalSum::kernel:  C[Index<k>::I] * L[Index<n+k>::I]
LocalTerm(C, LJ, nx, ny, nz, kx, ky, kz) ==
  RMul(C[IndexI(kx, ky, kz)], LJ[IndexI(nx + kx, ny + ky, nz + kz)])

\* LocalSum<nx,ny,nz,kx,ky,kz>::kernel(C, L)
RECURSIVE LocalSum(_, _, _, _, _, _, _, _)
LocalSum(nx, ny, nz, kx, ky, kz, C, LJ) ==
  CASE kz > 0 ->
    RAdd(LocalSum(nx, ny, nz, kx, ky + 1, kz - 1, C, LJ),
         LocalTerm(C, LJ, nx, ny, nz, kx, ky, kz))
    [] kz = 0 /\ ky > 0 ->
    RAdd(LocalSum(nx, ny, nz, kx + 1, 0, ky - 1, C, LJ),
         LocalTerm(C, LJ, nx, ny, nz, kx, ky, 0))
    [] kz = 0 /\ ky = 0 /\ kx > 0 ->
    RAdd(LocalSum(nx, ny, nz, 0, 0, kx - 1, C, LJ),
         LocalTerm(C, LJ, nx, ny, nz, kx, 0, 0))
    [] OTHER -> RZero

\* Downward<P,nx,ny,nz>::M2L(L, C, M), and ::M2P(B, C, M) with B for L
RECURSIVE Downward_M2L(_, _, _, _, _, _, _)
Downward_M2L(P, nx, ny, nz, Lt, C, M) ==
  CASE nz > 0 ->
    SlotAdd(Downward_M2L(P, nx, ny + 1, nz - 1, Lt, C, M), IndexI(nx, ny, nz),
            M2LSum(nx, ny, nz, 0, 0, P - nx - ny - nz, C, M))
    [] nz = 0 /\ ny > 0 ->
    SlotAdd(Downward_M2L(P, nx + 1, 0, ny - 1, Lt, C, M), IndexI(nx, ny, 0),
            M2LSum(nx, ny, 0, 0, 0, P - nx - ny, C, M))
    [] nz = 0 /\ ny = 0 /\ nx > 0 ->
    SlotAdd(Downward_M2L(P, 0, 0, nx - 1, Lt, C, M), IndexI(nx, 0, 0),
            M2LSum(nx, 0, 0, 0, 0, P - nx, C, M))
    [] OTHER -> Lt

\* Downward<P,nx,ny,nz>::L2L(LI, C, LJ), and ::L2P(B, C, L) with B for LI
RECURSIVE Downward_L2L(_, _, _, _, _, _, _)
Downward_L2L(P, nx, ny, nz, LI, C, LJ) ==
  CASE nz > 0 ->
    SlotAdd(Downward_L2L(P, nx, ny + 1, nz - 1, LI, C, LJ), IndexI(nx, ny, nz),
            LocalSum(nx, ny, nz, 0, 0, P - nx - ny - nz, C, LJ))
    [] nz = 0 /\ ny > 0 ->
    SlotAdd(Downward_L2L(P, nx + 1, 0, ny - 1, LI, C, LJ), IndexI(nx, ny, 0),
            LocalSum(nx, ny, 0, 0, 0, P - nx - ny, C, LJ))
    [] nz = 0 /\ ny = 0 /\ nx > 0 ->
    SlotAdd(Downward_L2L(P, 0, 0, nx - 1, LI, C, LJ), IndexI(nx, 0, 0),
            LocalSum(nx, 0, 0, 0, 0, P - nx, C, LJ))
    [] OTHER -> LI

\* for (i = 1; i < MTERM; ++i) L[0] += M[i] * C[i];   (sumM2L, sumM2P)
\* for (i = 1; i < LTERM; ++i) Ltarget[0] += C[i] * Lsource[i];  (L2L, L2P)
RECURSIVE Slot0Loop(_, _, _, _)
Slot0Loop(V, A, B, n) ==
  IF n <= 1 THEN V
  ELSE SlotAdd(Slot0Loop(V, A, B, n - 1), 0, RMul(A[n - 1], B[n - 1]))

\* The mutant of sumM2L: `L += C' left out.
sumM2L_m(P, Lt, C, M) ==
  Bind(Slot0Loop(Lt, M, C, MTERM(P)),
       LAMBDA L0 : Downward_M2L(P, 0, 0, P - 1, L0, C, M))

\* sumM2L<P>(L, C, M); the value is L after the call.
sumM2L(P, Lt, C, M) ==
  Bind(Slot0Loop(VecAdd(Lt, C), M, C, MTERM(P)),
       LAMBDA L0 : Downward_M2L(P, 0, 0, P - 1, L0, C, M))

\* ---------------------------------------------------- LaplaceCartesian<P>
\* The auxiliary vector of P2M:  multipole_type C; C[0] = charge; power(C, dist)
P2M_C(P, source, charge, center) ==
  Terms_power(0, 0, P - 1, LocalVec(MTERM(P), charge), PtSub(center, source))

\* The mutant of P2M: the displacement taken from the center to the source.
P2M_m(P, source, charge, center, M) ==
  VecAdd(M, P2M_C(P, center, charge, source))

\* LaplaceCartesian::P2M; the value is M after the call.
P2M(P, source, charge, center, M) ==
  VecAdd(M, P2M_C(P, source, charge, center))

\* The auxiliary vector of M2M, L2L and L2P:  C[0] = 1; Terms<0,0,D>::power(C, dist)
PowerC(N, D, dist) == Terms_power(0, 0, D, LocalVec(N, ROne), dist)

\* The mutant of M2M_loop: the loop left out.
M2M_loop_m(Msource, Mtarget, C) == Mtarget

\* for (i = 0; i < MTERM; ++i) Mtarget[i] += C[i] * Msource[0];
M2M_loop(Msource, Mtarget, C) ==
  [i \in DOMAIN Mtarget |-> RAdd(Mtarget[i], RMul(C[i], Msource[0]))]

\* The mutant of M2M: the powers built from the reversed translation.
M2M_m(P, Msource, Mtarget, translation) ==
  Bind(PowerC(MTERM(P), P - 1, PtSub(Pt(0, 0, 0), translation)),
       LAMBDA C : Upward_M2M(0, 0, P - 1, M2M_loop(Msource, Mtarget, C), C, Msource))

\* LaplaceCartesian::M2M; the value is Mtarget after the call.
M2M(P, Msource, Mtarget, translation) ==
  Bind(PowerC(MTERM(P), P - 1, translation),
       LAMBDA C : Upward_M2M(0, 0, P - 1, M2M_loop(Msource, Mtarget, C), C, Msource))

\* sqrt of a rational that is the square of a rational (the displacements
\* passed to M2L and M2P below have an integer length).
ISqrt(n) == CHOOSE r \in 0..n : r * r = n
RSqrt(x) == <<ISqrt(x[1]), ISqrt(x[2])>>

\* The auxiliary vector of M2L and M2P:
\*   invR2 = 1.0 / normSq(dist); invR = M[0] * sqrt(invR2); getCoef<P>(C, ...)
M2L_C(P, M, dist) ==
  Bind(RDiv(ROne, normSq(dist)), LAMBDA invR2 :
    Bind(RMul(M[0], RSqrt(invR2)), LAMBDA invR :
      getCoef(P, dist, invR2, invR)))

\* LaplaceCartesian::M2L; the value is L after the call.
M2L(P, M, Lt, translation) ==
  Bind(M2L_C(P, M, translation), LAMBDA C : sumM2L(P, Lt, C, M))

\* B[0] += C[0]; B[1] += C[1]; B[2] += C[2]; B[3] += C[3];
Add4(B, C) == [i \in DOMAIN B |-> RAdd(B[i], C[i])]

\* The mutant of sumM2P: the four `B[k] += C[k]' left out.
sumM2P_m(P, B, C, M) ==
  Bind(Slot0Loop(B, M, C, MTERM(P)),
       LAMBDA B0 : Downward_M2L(P, 0, 0, 1, B0, C, M))

\* sumM2P<P>(B, C, M); the value is B after the call.
sumM2P(P, B, C, M) ==
  Bind(Slot0Loop(Add4(B, C), M, C, MTERM(P)),
       LAMBDA B0 : Downward_M2L(P, 0, 0, 1, B0, C, M))

\* LaplaceCartesian::M2P; the value is result after the call.
M2P(P, M, center, target, res) ==
  Bind(M2L_C(P, M, PtSub(target, center)), LAMBDA C : sumM2P(P, res, C, M))

\* The mutant of L2L: the loop `Ltarget[0] += C[i] * Lsource[i]' left out.
L2L_m(P, Lsource, Ltarget, translation) ==
  Bind(PowerC(LTERM(P), P, translation), LAMBDA C :
    Downward_L2L(P, 0, 0, P - 1, VecAdd(Ltarget, Lsource), C, Lsource))

\* LaplaceCartesian::L2L; the value is Ltarget after the call.
L2L(P, Lsource, Ltarget, translation) ==
  Bind(PowerC(LTERM(P), P, translation), LAMBDA C :
    Bind(Slot0Loop(VecAdd(Ltarget, Lsource), C, Lsource, LTERM(P)), LAMBDA L0 :
      Downward_L2L(P, 0, 0, P - 1, L0, C, Lsource)))

\* The mutant of L2P: `result[k] += L[k]' left out.
L2P_m(P, Ls, center, target, res) ==
  Bind(PowerC(LTERM(P), P, PtSub(target, center)), LAMBDA C :
    Bind(Slot0Loop(res, C, Ls, LTERM(P)), LAMBDA B0 :
      Downward_L2L(P, 0, 0, 1, B0, C, Ls)))

\* LaplaceCartesian::L2P; the value is result after the call.
L2P(P, Ls, center, target, res) ==
  Bind(PowerC(LTERM(P), P, PtSub(target, center)), LAMBDA C :
    Bind(Slot0Loop(Add4(res, Ls), C, Ls, LTERM(P)), LAMBDA B0 :
      Downward_L2L(P, 0, 0, 1, B0, C, Ls)))

\* ------------------------------------------------------------ tree context
Orders == 1..MaxP

\* The boxes of the tree context; box 0 is the root.
Boxes == {0, 1, 2}
Root == 0

\* The tree shapes: two leaves under the root, or a chain 2 -> 1 -> 0.
Shapes == {[b \in Boxes \ {Root} |-> 0], [b \in Boxes \ {Root} |-> b - 1]}

\* bc.center(b)
BoxCenter(b) == IF b = 0 THEN Pt(0, 0, 0) ELSE IF b = 1 THEN Pt(1, -1, 2) ELSE Pt(-1, 2, 1)

Children(b) == {c \in Boxes \ {Root} : parent[c] = b}
Leaves == {b \in Boxes : Children(b) = {}}

\* The source points and charges a caller passes to P2M.
SrcPoints == {Pt(1, 0, -1), Pt(-2, 1, 3)}
Charges == {RInt(2), Rat(-1, 2)}

NoCall ==
  [op |-> "none", box |-> 0, before |-> <<>>, arg |-> <<>>, dist |-> Pt(0, 0, 0),
   q |-> RZero, C |-> <<>>]

\* No builder call is in progress.
NoBuild ==
  [kind |-> "none", phase |-> "done", D |-> 0, dist |-> Pt(0, 0, 0), invR2 |-> RZero,
   C |-> <<>>, A |-> <<>>, before |-> <<>>, stack |-> <<>>, down |-> FALSE,
   writes |-> <<>>, reads |-> <<>>]

InitCommon ==
  /\ Porder \in Orders
  /\ local = [b \in Boxes |-> VecZero(LTERM(Porder))]
  /\ result = VecZero(4)
  /\ srcs = <<>>
  /\ shifted = {}
  /\ calls = 0
  /\ last = NoCall
  /\ build = NoBuild
  /\ threads = <<>>
  /\ has_M2M = TRUE
  /\ exits = <<>>

\* ------------------------------------------------------------ upward pass
\* The multipoles are created zeroed, once per box.
UpInit ==
  /\ InitCommon
  /\ parent \in Shapes
  /\ multipole = [b \in Boxes |-> VecZero(MTERM(Porder))]

\* P2M of one source into its leaf box b.
UpP2M(b, s, q) ==
  /\ Len(srcs) < MaxSources
  /\ b \in Leaves
  /\ b \notin shifted
  /\ multipole' = [multipole EXCEPT ![b] = P2M(Porder, s, q, BoxCenter(b), multipole[b])]
  /\ srcs' = Append(srcs, <<s, q, b>>)
  /\ last' = [op |-> "P2M", box |-> b, before |-> multipole[b], arg |-> <<>>,
              dist |-> PtSub(BoxCenter(b), s), q |-> q,
              C |-> P2M_C(Porder, s, q, BoxCenter(b))]
  /\ UNCHANGED <<Porder, parent, local, result, shifted, calls, build, threads, has_M2M, exits>>

\* M2M::eval(K, bc, source = b, target = parent[b]): every child of b has
\* been shifted into b, and b is shifted once.
UpM2M(b) ==
  /\ b # Root
  /\ b \notin shifted
  /\ Children(b) \subseteq shifted
  /\ LET t == parent[b]
         translation == PtSub(BoxCenter(t), BoxCenter(b))
     IN  /\ multipole' = [multipole EXCEPT ![t] = M2M(Porder, multipole[b], multipole[t], translation)]
         /\ last' = [op |-> "M2M", box |-> t, before |-> multipole[t], arg |-> multipole[b],
                     dist |-> translation, q |-> RZero,
                     C |-> PowerC(MTERM(Porder), Porder - 1, translation)]
  /\ shifted' = shifted \cup {b}
  /\ UNCHANGED <<Porder, parent, local, result, srcs, calls, build, threads, has_M2M, exits>>

UpNext ==
  \/ \E b \in Boxes, s \in SrcPoints, q \in Charges : UpP2M(b, s, q)
  \/ \E b \in Boxes : UpM2M(b)

SpecUp == UpInit /\ [][UpNext]_vars

\* ------------------------------------------------------- downward session
\* A caller's session of kernel calls on the expansions it owns: the
\* multipoles hold the moments of completed boxes, the locals and the result
\* start zeroed.
SampleM(b) == [i \in 0..(MTERM(Porder) - 1) |-> RInt(((i * i + 2 * i + 3 * b + 3) % 5) - 2)]

DnInit ==
  /\ InitCommon
  /\ parent = [b \in Boxes \ {Root} |-> 0]
  /\ multipole = [b \in Boxes |-> SampleM(b)]

\* The translations of M2L and the displacements of M2P: well separated, of
\* integer length.
FarVecs == {Pt(1, 2, 2), Pt(2, -1, -2)}
\* The translations of L2L and the displacements target - center of L2P.
NearVecs == {Pt(1, -1, 2), Pt(-1, 2, 1)}

\* M2L of the multipole of box s into the local of box t.
DnM2L(s, t, tr) ==
  /\ calls < MaxCalls
  /\ local' = [local EXCEPT ![t] = M2L(Porder, multipole[s], local[t], tr)]
  /\ last' = [op |-> "M2L", box |-> t, before |-> local[t], arg |-> multipole[s], dist |-> tr,
              q |-> RZero, C |-> M2L_C(Porder, multipole[s], tr)]
  /\ calls' = calls + 1
  /\ UNCHANGED <<Porder, parent, multipole, result, srcs, shifted, build, threads, has_M2M, exits>>

\* L2L of the local of box s into the local of another box t.
DnL2L(s, t, tr) ==
  /\ calls < MaxCalls
  /\ s # t
  /\ local' = [local EXCEPT ![t] = L2L(Porder, local[s], local[t], tr)]
  /\ last' = [op |-> "L2L", box |-> t, before |-> local[t], arg |-> local[s], dist |-> tr,
              q |-> RZero, C |-> PowerC(LTERM(Porder), Porder, tr)]
  /\ calls' = calls + 1
  /\ UNCHANGED <<Porder, parent, multipole, result, srcs, shifted, build, threads, has_M2M, exits>>

\* L2P of the local of box b at the target BoxCenter(b) + d.
DnL2P(b, d) ==
  /\ calls < MaxCalls
  /\ LET center == BoxCenter(b)
         target == [k \in 0..2 |-> RAdd(center[k], d[k])]
     IN  /\ result' = L2P(Porder, local[b], center, target, result)
         /\ last' = [op |-> "L2P", box |-> b, before |-> result, arg |-> local[b],
                     dist |-> PtSub(target, center), q |-> RZero,
                     C |-> PowerC(LTERM(Porder), Porder, PtSub(target, center))]
  /\ calls' = calls + 1
  /\ UNCHANGED <<Porder, parent, multipole, local, srcs, shifted, build, threads, has_M2M, exits>>

\* M2P of the multipole of box s at the target BoxCenter(s) + d.
DnM2P(s, d) ==
  /\ calls < MaxCalls
  /\ LET center == BoxCenter(s)
         target == [k \in 0..2 |-> RAdd(center[k], d[k])]
     IN  /\ result' = M2P(Porder, multipole[s], center, target, result)
         /\ last' = [op |-> "M2P", box |-> s, before |-> result, arg |-> multipole[s],
                     dist |-> PtSub(target, center), q |-> RZero,
                     C |-> M2L_C(Porder, multipole[s], PtSub(target, center))]
  /\ calls' = calls + 1
  /\ UNCHANGED <<Porder, parent, multipole, local, srcs, shifted, build, threads, has_M2M, exits>>

DnNext ==
  \/ \E s \in {1, 2}, t \in {0, 1}, tr \in FarVecs : DnM2L(s, t, tr)
  \/ \E tr \in NearVecs : DnL2L(0, 1, tr)
  \/ \E d \in NearVecs : DnL2P(1, d)
  \/ \E d \in FarVecs : DnM2P(2, d)

SpecDown == DnInit /\ [][DnNext]_vars

\* ------------------------------------------------------------ mixed session
\* A caller's session that mixes the six operators, each on one choice of
\* arguments: the sources go into leaf box 1, box 1 is shifted into the root,
\* and the downward operators run on the boxes of DnNext.
SessNext ==
  \/ UpP2M(1, Pt(1, 0, -1), Rat(-1, 2))
  \/ UpM2M(1)
  \/ DnM2L(2, 0, Pt(1, 2, 2))
  \/ DnL2L(0, 1, Pt(1, -1, 2))
  \/ DnL2P(1, Pt(-1, 2, 1))
  \/ DnM2P(2, Pt(2, -1, -2))

SpecSession == DnInit /\ [][SessNext]_vars

\* -------------------------------------------------- direct kernel evaluation
\* a < b
RLess(a, b) == a[1] * b[2] < b[1] * a[2]

\* 1.0 / x in IEEE arithmetic: the quotient, and +infinity (<<1, 0>>, no
\* rational) for x = 0.
Infinity == <<1, 0>>
Recip(x) == IF x = RZero THEN Infinity ELSE RDiv(ROne, x)

\* The literal 1e-8
SelfEps == Rat(1, 100000000)

\* The mutant of SelfGuard: the guard sets invR2 to 1.
SelfGuard_m(R2, invR2) == IF RLess(R2, SelfEps) THEN ROne ELSE invR2

\* if (R2 < 1e-8) invR2 = 0;   the value is invR2 after the statement.
SelfGuard(R2, invR2) == IF RLess(R2, SelfEps) THEN RZero ELSE invR2

\* LaplaceCartesian::operator()(t, s): the kernel_value_type it returns.
operator_call(t, s) ==
  Bind(PtSub(s, t), LAMBDA dist :
    Bind(normSq(dist), LAMBDA R2 :
      Bind(SelfGuard(R2, Recip(R2)), LAMBDA invR2 :
        Bind(RSqrt(invR2), LAMBDA invR :
          Bind(RMul(invR2, invR), LAMBDA f :
            [k \in 0..3 |-> IF k = 0 THEN invR ELSE RMul(dist[k - 1], f)])))))

\* The targets of the direct evaluation, and the displacements s - t of its
\* sources: none, well separated, and shorter than 1e-4.
EvalTargets == {Pt(0, 0, 0), Pt(1, 2, 2), Pt(-1, 0, 3)}
EvalDisps ==
  {Pt(0, 0, 0), Pt(1, 2, 2), Pt(2, -1, -2), Pt(-2, 0, 0),
   [k \in 0..2 |-> IF k = 0 THEN Rat(1, 20000) ELSE RZero],
   [k \in 0..2 |-> IF k = 0 THEN Rat(-1, 20000) ELSE RZero],
   [k \in 0..2 |-> IF k = 2 THEN Rat(-1, 40000) ELSE RZero]}

\* One evaluation K(t, s) of the kernel; the caller keeps the returned value.
DirectEval(t, s) ==
  /\ calls < MaxCalls
  /\ last' = [op |-> "K", box |-> 0, before |-> <<>>, arg |-> <<t, s>>,
              dist |-> PtSub(s, t), q |-> RZero, C |-> operator_call(t, s)]
  /\ calls' = calls + 1
  /\ UNCHANGED <<Porder, parent, multipole, local, result, srcs, shifted, build, threads, has_M2M, exits>>

DirectNext ==
  \E t \in EvalTargets, d \in EvalDisps : DirectEval(t, [k \in 0..2 |-> RAdd(t[k], d[k])])

SpecDirect == DnInit /\ [][DirectNext]_vars

\* ------------------------------------------------------ builders, by steps
\* The mutant of Terms_prev: Terms<nx,0,0> calls Terms<nx-1,0,0>.
Terms_prev_m(f) ==
  CASE f[3] > 0 -> <<f[1], f[2] + 1, f[3] - 1>>
    [] f[3] = 0 /\ f[2] > 0 -> <<f[1] + 1, 0, f[2] - 1>>
    [] OTHER -> <<f[1] - 1, 0, 0>>

\* The frame that Terms<nx,ny,nz> calls before its own write (power,
\* derivative and scale alike); f = <<nx, ny, nz>> is not <<0, 0, 0>>.
Terms_prev(f) ==
  CASE f[3] > 0 -> <<f[1], f[2] + 1, f[3] - 1>>
    [] f[3] = 0 /\ f[2] > 0 -> <<f[1] + 1, 0, f[2] - 1>>
    [] OTHER -> <<0, 0, f[1] - 1>>

\* The DerivativeTerm instantiations <<kx, ky, kz, d>> that
\* DerivativeSum<nx,ny,nz,kx,ky,kz,flag>::loop adds up.
RECURSIVE DerivativeSum_terms(_, _, _, _, _, _, _)
DerivativeSum_terms(nx, ny, nz, kx, ky, kz, flag) ==
  CASE flag = 5 /\ kz = 0 -> DerivativeSum_terms(nx, ny, nz, nx, ny, 0, 4)
    [] flag = 5 /\ kz # 0 ->
    DerivativeSum_terms(nx, ny, nz, nx, ny, kz - 1, 5 - B2I(kz < nz \/ kz = 1))
      \cup {<<nx, ny, kz - 1, IF kz = nz - 1 THEN -1 ELSE 2>>}
    [] flag = 4 -> DerivativeSum_terms(nx, ny, nz, nx, ny, nz, 3 - B2I(ny = 0))
    [] flag = 3 ->
    DerivativeSum_terms(nx, ny, nz, nx, ky - 1, nz, 3 - B2I(ky < ny \/ ky = 1))
      \cup {<<nx, ky - 1, nz, IF ky = ny - 1 THEN -1 ELSE 1>>}
    [] flag = 2 -> DerivativeSum_terms(nx, ny, nz, nx, ny, nz, 1 - B2I(nx = 0))
    [] flag = 1 ->
    DerivativeSum_terms(nx, ny, nz, kx - 1, ny, nz, 1 - B2I(kx < nx \/ kx = 1))
      \cup {<<kx - 1, ny, nz, IF kx = nx - 1 THEN -1 ELSE 0>>}
    [] OTHER -> {}

\* The multi-indices at which the write of frame f reads C.
Terms_reads_idx(phase, f) ==
  CASE phase = "power" /\ f[3] > 0 -> {<<f[1], f[2], f[3] - 1>>}
    [] phase = "power" /\ f[3] = 0 /\ f[2] > 0 -> {<<f[1], f[2] - 1, 0>>}
    [] phase = "power" /\ f[3] = 0 /\ f[2] = 0 -> {<<f[1] - 1, 0, 0>>}
    [] phase = "derivative" ->
    {<<t[1], t[2], t[3]>> :
       t \in DerivativeSum_terms(f[1], f[2], f[3], f[1], f[2], f[3], 5)}
    [] OTHER -> {f}

\* The slots of C that the write of frame f reads.
Terms_reads(phase, f) == {IndexI(r[1], r[2], r[3]) : r \in Terms_reads_idx(phase, f)}

\* The write of frame f: C after it.
Terms_write(phase, f, C, dist, invR2) ==
  CASE phase = "power" /\ f[3] > 0 -> Terms_power_z(C, f[1], f[2], f[3], dist)
    [] phase = "power" /\ f[3] = 0 /\ f[2] > 0 -> Terms_power_y(C, f[1], f[2], dist)
    [] phase = "power" /\ f[3] = 0 /\ f[2] = 0 -> Terms_power_x(C, f[1], dist)
    [] phase = "derivative" -> Terms_derivative_w(C, f[1], f[2], f[3], dist, invR2)
    [] OTHER -> Terms_scale_w(C, f[1], f[2], f[3])

\* The mutant of BuildStart: getCoef starts with Terms<0,0,P>::scale.
BuildStart_m(kind, N, D, c0, dist, invR2) ==
  /\ build.kind = "none"
  /\ build' = [kind |-> kind,
               phase |-> IF kind = "getCoef" THEN "scale" ELSE "power",
               D |-> D, dist |-> dist, invR2 |-> invR2,
               C |-> LocalVec(N, c0), A |-> <<>>, before |-> LocalVec(N, c0),
               stack |-> << <<0, 0, D>> >>, down |-> TRUE,
               writes |-> <<>>, reads |-> <<>>]
  /\ UNCHANGED <<Porder, parent, multipole, local, result, srcs, shifted, calls, last, threads, has_M2M, exits>>

\* The builder call starts: `C[0] = c0' on a fresh vector of N slots, then the
\* call of Terms<0,0,D>::power, or of Terms<0,0,D>::derivative for getCoef.
BuildStart(kind, N, D, c0, dist, invR2) ==
  /\ build.kind = "none"
  /\ build' = [kind |-> kind,
               phase |-> IF kind = "getCoef" THEN "derivative" ELSE "power",
               D |-> D, dist |-> dist, invR2 |-> invR2,
               C |-> LocalVec(N, c0), A |-> <<>>, before |-> LocalVec(N, c0),
               stack |-> << <<0, 0, D>> >>, down |-> TRUE,
               writes |-> <<>>, reads |-> <<>>]
  /\ UNCHANGED <<Porder, parent, multipole, local, result, srcs, shifted, calls, last, threads, has_M2M, exits>>

\* The frame on top of the stack makes its recursive call; Terms<0,0,0> has
\* an empty body and returns.
BuildCall ==
  /\ build.down
  /\ build.stack # <<>>
  /\ LET top == build.stack[Len(build.stack)]
     IN  build' = IF top = <<0, 0, 0>>
                  THEN [build EXCEPT !.stack = SubSeq(build.stack, 1, Len(build.stack) - 1),
                                     !.down = FALSE]
                  ELSE [build EXCEPT !.stack = Append(build.stack, Terms_prev(top))]
  /\ UNCHANGED <<Porder, parent, multipole, local, result, srcs, shifted, calls, last, threads, has_M2M, exits>>

\* The call of the frame on top of the stack has returned: the frame makes
\* its write and returns.  A read of a slot that holds no value leaves the
\* written slot without a value.
BuildWrite ==
  /\ ~build.down
  /\ build.stack # <<>>
  /\ LET top == build.stack[Len(build.stack)]
         rd == Terms_reads(build.phase, top)
     IN  build' = [build EXCEPT
                     !.stack = SubSeq(build.stack, 1, Len(build.stack) - 1),
                     !.before = build.C,
                     !.C = IF \A r \in rd : build.C[r] # Uninit
                           THEN Terms_write(build.phase, top, build.C, build.dist, build.invR2)
                           ELSE [build.C EXCEPT ![IndexI(top[1], top[2], top[3])] = Uninit],
                     !.writes = Append(build.writes, IndexI(top[1], top[2], top[3])),
                     !.reads = Append(build.reads, rd)]
  /\ UNCHANGED <<Porder, parent, multipole, local, result, srcs, shifted, calls, last, threads, has_M2M, exits>>

\* Terms<0,0,D>::... has returned to the builder: getCoef goes on to
\* Terms<0,0,D>::scale after Terms<0,0,D>::derivative, and every builder
\* returns after its last traversal.
BuildReturn ==
  /\ ~build.down
  /\ build.stack = <<>>
  /\ build.phase # "done"
  /\ build' = IF build.kind = "getCoef" /\ build.phase = "derivative"
              THEN [build EXCEPT !.phase = "scale", !.A = build.C,
                                 !.stack = << <<0, 0, build.D>> >>, !.down = TRUE,
                                 !.writes = <<>>, !.reads = <<>>]
              ELSE [build EXCEPT !.phase = "done"]
  /\ UNCHANGED <<Porder, parent, multipole, local, result, srcs, shifted, calls, last, threads, has_M2M, exits>>

\* 1 / |d| for a displacement of rational length
InvNorm(d) == RSqrt(RDiv(ROne, normSq(d)))

\* The first coefficients the builders are called with: 1 (M2M, L2L, L2P), a
\* charge (P2M) and M[0] (M2L, M2P).
FirstCoefs == {ROne, Rat(-1, 2)}

BuildNext ==
  \/ \E c0 \in FirstCoefs, d \in NearVecs :
       \/ BuildStart("power", MTERM(Porder), Porder - 1, c0, d, RZero)
       \/ BuildStart("power", LTERM(Porder), Porder, c0, d, RZero)
  \/ \E c0 \in FirstCoefs, d \in FarVecs :
       BuildStart("getCoef", LTERM(Porder), Porder, RMul(c0, InvNorm(d)), d,
                  RDiv(ROne, normSq(d)))
  \/ BuildCall
  \/ BuildWrite
  \/ BuildReturn

SpecBuild == DnInit /\ [][BuildNext]_vars

\* ------------------------------------------------- concurrent invocations
\* The frames of a recursion started at f in the order of their statements:
\* the recursive call first (the instantiations of Terms_prev, which Terms,
\* Upward, Downward, M2LSum and LocalSum share), then the frame's own
\* statement; the frame <0,0,0> has an empty body.
RECURSIVE Frames(_)
Frames(f) == IF f = <<0, 0, 0>> THEN <<>> ELSE Append(Frames(Terms_prev(f)), f)

\* The statements of sumM2L<P>, and of L2L after its builder, in program
\* order: the elementwise `+=' of the vectors, the loop on slot 0, and the
\* frames of Downward<P,0,0,P-1>.
Statements(op, P) ==
  Bind(Frames(<<0, 0, P - 1>>), LAMBDA frames :
    [i \in 1..LTERM(P) |-> <<"vec", i - 1>>]
      \o [i \in 1..((IF op = "M2L" THEN MTERM(P) ELSE LTERM(P)) - 1) |-> <<"loop", i>>]
      \o [i \in 1..Len(frames) |-> <<"sum", frames[i]>>])

\* The slot of the output vector that the statement st adds to.
StmtSlot(st) ==
  CASE st[1] = "vec" -> st[2]
    [] st[1] = "loop" -> 0
    [] OTHER -> IndexI(st[2][1], st[2][2], st[2][3])

\* The mutant of StmtInc: the loop on slot 0 adds nothing.
StmtInc_m(op, P, st, C, In) ==
  CASE st[1] = "vec" -> IF op = "M2L" THEN C[st[2]] ELSE In[st[2]]
    [] st[1] = "loop" -> RZero
    [] st[1] = "sum" /\ op = "M2L" ->
       M2LSum(st[2][1], st[2][2], st[2][3], 0, 0, P - Deg(st[2]), C, In)
    [] OTHER -> LocalSum(st[2][1], st[2][2], st[2][3], 0, 0, P - Deg(st[2]), C, In)

\* The right-hand side of the statement st, from the private vector C and the
\* input vector In (M of M2L, Lsource of L2L) as it is when the statement runs.
StmtInc(op, P, st, C, In) ==
  CASE st[1] = "vec" -> IF op = "M2L" THEN C[st[2]] ELSE In[st[2]]
    [] st[1] = "loop" ->
       IF op = "M2L" THEN RMul(In[st[2]], C[st[2]]) ELSE RMul(C[st[2]], In[st[2]])
    [] st[1] = "sum" /\ op = "M2L" ->
       M2LSum(st[2][1], st[2][2], st[2][3], 0, 0, P - Deg(st[2]), C, In)
    [] OTHER -> LocalSum(st[2][1], st[2][2], st[2][3], 0, 0, P - Deg(st[2]), C, In)

\* An invocation M2L(multipole[s], local[t], tr) or L2L(local[s], local[t], tr)
\* that has not begun, with the statements it is going to run.
Invocation(op, s, t, tr) ==
  [op |-> op, src |-> s, tgt |-> t, dist |-> tr, C |-> <<>>, pc |-> 0,
   loaded |-> FALSE, reg |-> RZero, prog |-> Statements(op, Porder)]

\* The local expansions the concurrent invocations start from.
SampleL(b) == [i \in 0..(LTERM(Porder) - 1) |-> RInt(((i * i + i + 2 * b + 1) % 7) - 3)]

\* The pairs of concurrent invocations: no two write the same local vector.
\* Two M2L read one multipole, two L2L read one local vector, and an M2L
\* runs beside an L2L on other boxes; in the last pair the L2L reads the local
\* vector the M2L writes (followed at order 1).
Scenarios ==
  {<<Invocation("M2L", 2, 0, Pt(1, 2, 2)), Invocation("M2L", 2, 1, Pt(2, -1, -2))>>,
   <<Invocation("L2L", 0, 1, Pt(1, -1, 2)), Invocation("L2L", 0, 2, Pt(-1, 2, 1))>>,
   <<Invocation("M2L", 1, 1, Pt(1, 2, 2)), Invocation("L2L", 0, 2, Pt(1, -1, 2))>>}
  \cup (IF Porder = 1
        THEN {<<Invocation("M2L", 2, 0, Pt(1, 2, 2)), Invocation("L2L", 0, 1, Pt(1, -1, 2))>>}
        ELSE {})

ConcInit ==
  /\ Porder \in Orders
  /\ parent = [b \in Boxes \ {Root} |-> 0]
  /\ multipole = [b \in Boxes |-> SampleM(b)]
  /\ local = [b \in Boxes |-> SampleL(b)]
  /\ result = VecZero(4)
  /\ srcs = <<>>
  /\ shifted = {}
  /\ calls = 0
  /\ last = NoCall
  /\ build = NoBuild
  /\ threads \in Scenarios
  /\ has_M2M = TRUE
  /\ exits = <<>>

\* The input vector of thread p as it is now.
ThreadInput(p) ==
  IF threads[p].op = "M2L" THEN multipole[threads[p].src] ELSE local[threads[p].src]

\* Thread p runs the operator's statements before the sums: its private
\* vector C is built (M2L reads M[0]).
ConcBegin(p) ==
  /\ threads[p].pc = 0
  /\ threads' = [threads EXCEPT
                   ![p].C = IF threads[p].op = "M2L"
                            THEN M2L_C(Porder, ThreadInput(p), threads[p].dist)
                            ELSE PowerC(LTERM(Porder), Porder, threads[p].dist),
                   ![p].pc = 1]
  /\ UNCHANGED <<Porder, parent, multipole, local, result, srcs, shifted, calls, last, build, has_M2M, exits>>

\* Thread p evaluates the right-hand side of its next statement and reads the
\* output slot.
ConcLoad(p) ==
  /\ threads[p].pc \in 1..Len(threads[p].prog)
  /\ ~threads[p].loaded
  /\ LET st == threads[p].prog[threads[p].pc]
     IN  threads' = [threads EXCEPT
                       ![p].loaded = TRUE,
                       ![p].reg = RAdd(local[threads[p].tgt][StmtSlot(st)],
                                       StmtInc(threads[p].op, Porder, st, threads[p].C,
                                               ThreadInput(p)))]
  /\ UNCHANGED <<Porder, parent, multipole, local, result, srcs, shifted, calls, last, build, has_M2M, exits>>

\* Thread p writes the output slot of its statement.
ConcStore(p) ==
  /\ threads[p].loaded
  /\ LET st == threads[p].prog[threads[p].pc]
     IN  local' = [local EXCEPT ![threads[p].tgt][StmtSlot(st)] = threads[p].reg]
  /\ threads' = [threads EXCEPT ![p].loaded = FALSE, ![p].pc = threads[p].pc + 1]
  /\ UNCHANGED <<Porder, parent, multipole, result, srcs, shifted, calls, last, build, has_M2M, exits>>

ConcNext ==
  \E p \in 1..2 : ConcBegin(p) \/ ConcLoad(p) \/ ConcStore(p)

SpecConc == ConcInit /\ [][ConcNext]_vars

\* ----------------------------------------------------------- index accesses
\* An access <<v, a>> is the use of Index<a>::I on a vector of kind v: "M" has
\* MTERM slots (a multipole, the C of P2M and M2M), "L" has LTERM slots (a
\* local, the C of M2L, M2P, L2L and L2P), "B" is the result.
SeqRange(s) == {s[i] : i \in 1..Len(s)}

\* Terms<0,0,D>::power, ::derivative or ::scale on C: the slot each frame
\* writes and the slots it reads.
Terms_acc(v, phase, D) ==
  UNION {{<<v, f>>} \cup {<<v, r>> : r \in Terms_reads_idx(phase, f)} :
           f \in SeqRange(Frames(<<0, 0, D>>))}

\* M2MSum<nx,ny,nz,kx,ky,kz>::kernel: the pairs <<a, k>> of its products
\* C[Index<a>::I] * M[Index<k>::I].
RECURSIVE M2MSum_idx(_, _, _, _, _, _)
M2MSum_idx(nx, ny, nz, kx, ky, kz) ==
  CASE kz > 0 ->
    M2MSum_idx(nx, ny, nz, kx, ky, kz - 1)
      \cup {<< <<nx - kx, ny - ky, nz - kz>>, <<kx, ky, kz>> >>}
    [] kz = 0 /\ ky > 0 ->
    M2MSum_idx(nx, ny, nz, kx, ky - 1, nz)
      \cup {<< <<nx - kx, ny - ky, nz>>, <<kx, ky, 0>> >>}
    [] kz = 0 /\ ky = 0 /\ kx > 0 ->
    M2MSum_idx(nx, ny, nz, kx - 1, ny, nz)
      \cup {<< <<nx - kx, ny, nz>>, <<kx, 0, 0>> >>}
    [] OTHER -> {}

\* Upward<0,0,P-1>::M2M: MI[Index<n>::I] += M2MSum<n,n>::kernel(C, MJ)
Upward_acc(P) ==
  UNION {{<<"M", n>>}
           \cup UNION {{<<"M", t[1]>>, <<"M", t[2]>>} :
                         t \in M2MSum_idx(n[1], n[2], n[3], n[1], n[2], n[3])} :
           n \in SeqRange(Frames(<<0, 0, P - 1>>))}

\* The mutant of Sum_acc: the sum started one degree higher.
Sum_acc_m(vk, n, K) ==
  UNION {{<<vk, k>>, <<"L", <<n[1] + k[1], n[2] + k[2], n[3] + k[3]>>>>} : k \in SeqRange(Frames(<<0, 0, K + 1>>))}

\* M2LSum<n,0,0,K>::kernel: M[Index<k>::I] * C[Index<n+k>::I] (vk = "M"), and
\* LocalSum<n,0,0,K>::kernel: C[Index<k>::I] * L[Index<n+k>::I] (vk = "L").
Sum_acc(vk, n, K) ==
  UNION {{<<vk, k>>, <<"L", <<n[1] + k[1], n[2] + k[2], n[3] + k[3]>>>>} : k \in SeqRange(Frames(<<0, 0, K>>))}

\* Downward<P,0,0,N>::M2L, ::M2P, ::L2L and ::L2P: the output slot (of kind
\* vo) of each frame n and its sum <n,0,0,P-|n|>.
Downward_acc(P, vo, vk, N) ==
  UNION {{<<vo, n>>} \cup Sum_acc(vk, n, P - Deg(n)) : n \in SeqRange(Frames(<<0, 0, N>>))}

\* Every Index<..> an operator uses.
Index_acc(op, P) ==
  CASE op = "P2M" -> Terms_acc("M", "power", P - 1)
    [] op = "M2M" -> Terms_acc("M", "power", P - 1) \cup Upward_acc(P)
    [] op = "M2L" ->
       Terms_acc("L", "derivative", P) \cup Terms_acc("L", "scale", P)
         \cup Downward_acc(P, "L", "M", P - 1)
    [] op = "M2P" ->
       Terms_acc("L", "derivative", P) \cup Terms_acc("L", "scale", P)
         \cup Downward_acc(P, "B", "M", 1)
    [] op = "L2L" -> Terms_acc("L", "power", P) \cup Downward_acc(P, "L", "L", P - 1)
    [] op = "L2P" -> Terms_acc("L", "power", P) \cup Downward_acc(P, "B", "L", 1)

\* Every slot <<v, i>> an operator uses by its number: C[0], the elementwise
\* `+=' of two vectors, the `B[k] += ..[k]' of the results and the loops on
\* slot 0.
Slot_acc(op, P) ==
  CASE op = "P2M" -> {<<"M", i>> : i \in 0..(MTERM(P) - 1)}
    [] op = "M2M" -> {<<"M", i>> : i \in 0..(MTERM(P) - 1)}
    [] op = "M2L" ->
       {<<"L", i>> : i \in 0..(LTERM(P) - 1)} \cup {<<"M", i>> : i \in 0..(MTERM(P) - 1)}
    [] op = "M2P" ->
       {<<"B", k>> : k \in 0..3} \cup {<<"L", k>> : k \in 0..3}
         \cup {<<"M", i>> : i \in 0..(MTERM(P) - 1)} \cup {<<"L", i>> : i \in 1..(MTERM(P) - 1)}
    [] op = "L2L" -> {<<"L", i>> : i \in 0..(LTERM(P) - 1)}
    [] op = "L2P" ->
       {<<"B", k>> : k \in 0..3} \cup {<<"L", i>> : i \in 0..(LTERM(P) - 1)}

\* ----------------------------------------------------------- M2M dispatcher
\* The mutant of Dispatch_translation: the difference taken the other way.
Dispatch_translation_m(source, target) == PtSub(BoxCenter(source), BoxCenter(target))

\* bc.center(target) - bc.center(source)
Dispatch_translation(source, target) == PtSub(BoxCenter(target), BoxCenter(source))

\* M2M::eval(K, bc, source, target, p) on two boxes of the context.  With
\* has_M2M the overload that calls K.M2M(bc.multipole_expansion(source),
\* bc.multipole_expansion(target), translation, p) is chosen; without it the
\* overload eval(Args...) is the only one: it takes its arguments by value,
\* writes to std::cerr and calls exit(1).  The order p that the dispatcher
\* passes on is the order Porder the kernel operator is instantiated with.
M2M_eval(source, target) ==
  /\ exits = <<>>
  /\ source # target
  /\ calls < MaxCalls
  /\ IF has_M2M
     THEN /\ multipole' =
               [multipole EXCEPT ![target] =
                  M2M(Porder, multipole[source], multipole[target],
                      Dispatch_translation(source, target))]
          /\ last' = [op |-> "M2M", box |-> target, src |-> source,
                      before |-> multipole[target], arg |-> multipole[source],
                      dist |-> Dispatch_translation(source, target), q |-> RZero,
                      C |-> PowerC(MTERM(Porder), Porder - 1,
                                   Dispatch_translation(source, target))]
          /\ calls' = calls + 1
          /\ exits' = exits
     ELSE /\ exits' = Append(exits, 1)
          /\ UNCHANGED <<multipole, last, calls>>
  /\ UNCHANGED <<Porder, parent, local, result, srcs, shifted, build, threads, has_M2M>>

\* The program is built for a kernel with or without a matching M2M; the
\* multipoles hold the moments of the boxes.
DispatchInit ==
  /\ Porder \in Orders
  /\ parent = [b \in Boxes \ {Root} |-> 0]
  /\ multipole = [b \in Boxes |-> SampleM(b)]
  /\ local = [b \in Boxes |-> VecZero(LTERM(Porder))]
  /\ result = VecZero(4)
  /\ srcs = <<>>
  /\ shifted = {}
  /\ calls = 0
  /\ last = NoCall
  /\ build = NoBuild
  /\ threads = <<>>
  /\ has_M2M \in BOOLEAN
  /\ exits = <<>>

DispatchNext == \E source \in Boxes, target \in Boxes : M2M_eval(source, target)

SpecDispatch == DispatchInit /\ [][DispatchNext]_vars

\* ------------------------------------------------------- local re-expansion
\* A downward pass below the M2L stage: the locals hold what the M2L calls
\* left in them, and the caller shifts them from box to box with L2L and
\* evaluates them with L2P.
ShiftInit ==
  /\ Porder \in Orders
  /\ parent = [b \in Boxes \ {Root} |-> b - 1]
  /\ multipole = [b \in Boxes |-> SampleM(b)]
  /\ local = [b \in Boxes |-> SampleL(b)]
  /\ result = VecZero(4)
  /\ srcs = <<>>
  /\ shifted = {}
  /\ calls = 0
  /\ last = NoCall
  /\ build = NoBuild
  /\ threads = <<>>
  /\ has_M2M = TRUE
  /\ exits = <<>>

ShiftNext ==
  \/ \E tr \in NearVecs : DnL2L(0, 1, tr)
  \/ \E tr \in NearVecs : DnL2L(1, 2, tr)
  \/ \E tr \in NearVecs : DnL2L(0, 2, tr)
  \/ \E d \in NearVecs : DnL2P(2, d)

SpecShift == ShiftInit /\ [][ShiftNext]_vars

\* ------------------------------------------------- reference mathematics
\* x^n, n! and finite sums, used to state the properties.
RECURSIVE RPow(_, _)
RPow(x, n) == IF n = 0 THEN ROne ELSE RMul(x, RPow(x, n - 1))

RECURSIVE Fact(_)
Fact(n) == IF n = 0 THEN 1 ELSE n * Fact(n - 1)

\* f[lo] + ... + f[hi], summed by halves.
RECURSIVE RSum(_, _, _)
RSum(f, lo, hi) ==
  CASE lo > hi -> RZero
    [] lo = hi -> f[lo]
    [] OTHER -> RAdd(RSum(f, lo, (lo + hi) \div 2), RSum(f, ((lo + hi) \div 2) + 1, hi))

\* IdxOf[i] is the multi-index whose slot is i.
IdxOf ==
  [i \in 0..(LTERM(MaxP) - 1) |-> CHOOSE a \in MultiIdx(0, MaxP) : Slot(a) = i] @@ <<>>

\* The sum of Term[a] over the multi-indices a of the set S, each once.
SumOver(S, Term) ==
  RSum([i \in 0..(LTERM(Porder) - 1) |-> IF IdxOf[i] \in S THEN Term[IdxOf[i]] ELSE RZero],
       0, LTERM(Porder) - 1)

\* d^a = d_x^nx * d_y^ny * d_z^nz  and  a! = nx! * ny! * nz!
Mono(d, a) == RMul(RMul(RPow(d[0], a[1]), RPow(d[1], a[2])), RPow(d[2], a[3]))
AlphaFact(a) == Fact(a[1]) * Fact(a[2]) * Fact(a[3])

\* d^a / a!
TaylorC(d, a) == RDivInt(Mono(d, a), AlphaFact(a))

\* b <= a componentwise
LeqIdx(b, a) == b[1] <= a[1] /\ b[2] <= a[2] /\ b[3] <= a[3]
IdxSub(a, b) == <<a[1] - b[1], a[2] - b[2], a[3] - b[3]>>
IdxAdd(a, b) == <<a[1] + b[1], a[2] + b[2], a[3] + b[3]>>

\* The slots lo..hi-1 of one total degree d.
DegLo(d) == (d * (d+1) * (d+2)) \div 6
DegHi(d) == ((d+1) * (d+2) * (d+3)) \div 6

\* -------------------------------------------------------------------- C1
\* C1: for every total degree d <= Porder the index maps the multi-indices of
\* degree d one-to-one onto the slots [d(d+1)(d+2)/6, (d+1)(d+2)(d+3)/6); no
\* two multi-indices of degree <= Porder share a slot, those of degree <= Porder cover
\* exactly 0..LTERM-1 and those of degree < Porder cover exactly 0..MTERM-1.
C1_IndexBijection ==
  /\ \A d \in 0..Porder :
       /\ {Slot(a) : a \in MultiIdx(d, d)} = DegLo(d)..(DegHi(d) - 1)
       /\ Cardinality(MultiIdx(d, d)) = DegHi(d) - DegLo(d)
  /\ \A a, b \in MultiIdx(0, Porder) : Slot(a) = Slot(b) => a = b
  /\ {Slot(a) : a \in MultiIdx(0, Porder)} = 0..(LTERM(Porder) - 1)
  /\ {Slot(a) : a \in MultiIdx(0, Porder - 1)} = 0..(MTERM(Porder) - 1)

\* A P2M at the largest order has written every slot of the multipole vector.
C1_Witness ==
  /\ Porder = MaxP
  /\ last.op = "P2M"
  /\ DOMAIN last.C = {Slot(a) : a \in MultiIdx(0, Porder - 1)}
  /\ \A i \in DOMAIN last.C : last.C[i] # Uninit

\* -------------------------------------------------------------------- C3
\* C3: P2M adds to every multipole slot multipole[I(a)], 0 <= |a| < Porder, exactly
\* q * (center - source)^a / a!; slot 0 grows by exactly q and the vector has
\* no other slot.
C3_P2MIncrement ==
  last.op = "P2M" =>
    /\ DOMAIN multipole[last.box] = 0..(MTERM(Porder) - 1)
    /\ \A a \in MultiIdx(0, Porder - 1) :
         multipole[last.box][Slot(a)]
           = RAdd(last.before[Slot(a)], RMul(last.q, TaylorC(last.dist, a)))
    /\ multipole[last.box][0] = RAdd(last.before[0], last.q)

\* A P2M of order >= 3 into a multipole that already holds a source.
C3_Witness ==
  /\ last.op = "P2M"
  /\ Porder >= 3
  /\ last.before[0] # RZero
  /\ \A k \in 0..2 : last.dist[k] # RZero

\* -------------------------------------------------------------------- C4
\* The sum over b <= a of C[I(a-b)] * Msource[I(b)] with C[I(g)] = t^g / g!.
M2MExpected(Msource, t, a) ==
  SumOver({c \in MultiIdx(0, Deg(a)) : LeqIdx(c, a)},
          [b \in MultiIdx(0, Deg(a)) |-> RMul(TaylorC(t, IdxSub(a, b)), Msource[Slot(b)])])

\* C4: M2M adds to every slot Mtarget[I(a)], 0 <= |a| < Porder, exactly the sum
\* over all b <= a (b = 0 and b = a included, each once) of
\* C[I(a-b)] * Msource[I(b)], where C[I(g)] = translation^g / g!.
C4_M2MIncrement ==
  last.op = "M2M" =>
    \A a \in MultiIdx(0, Porder - 1) :
      multipole[last.box][Slot(a)]
        = RAdd(last.before[Slot(a)], M2MExpected(last.arg, last.dist, a))

\* An M2M of order >= 3 whose source holds charge and whose target is not
\* zero.
C4_Witness ==
  /\ last.op = "M2M"
  /\ Porder >= 3
  /\ last.arg[0] # RZero
  /\ last.before[0] # RZero

\* -------------------------------------------------------------------- C5
\* The sum of the charges of the first n accumulated sources.
RECURSIVE ChargeSum(_)
ChargeSum(n) == IF n = 0 THEN RZero ELSE RAdd(ChargeSum(n - 1), srcs[n][2])

UpDone == shifted = Boxes \ {Root}

\* C5: from zeroed multipoles, once every source has been accumulated by P2M
\* and every box shifted once by M2M up to the root, slot 0 of the root
\* multipole is the sum of all charges; and every M2M adds exactly Msource[0]
\* to Mtarget[0], whatever the translation.
C5_ChargeConservation ==
  /\ (UpDone /\ Len(srcs) >= 1) => multipole[Root][0] = ChargeSum(Len(srcs))
  /\ last.op = "M2M" => multipole[last.box][0] = RAdd(last.before[0], last.arg[0])

\* The upward pass is complete with the largest number of sources, in
\* different leaves, and a non-zero total charge.
C5_Witness ==
  /\ UpDone
  /\ Len(srcs) = MaxSources
  /\ \E i, j \in 1..Len(srcs) : srcs[i][3] # srcs[j][3]
  /\ ChargeSum(Len(srcs)) # RZero

\* -------------------------------------------------------------------- C6
\* The boxes of the subtree under b, b included.
RECURSIVE Subtree(_)
Subtree(b) == {b} \cup UNION {Subtree(c) : c \in Children(b)}

\* P2M of the first n accumulated sources that lie under box b, directly
\* about the center of b, into a zeroed multipole.
RECURSIVE DirectP2M(_, _)
DirectP2M(b, n) ==
  IF n = 0 THEN VecZero(MTERM(Porder))
  ELSE IF srcs[n][3] \in Subtree(b)
       THEN P2M(Porder, srcs[n][1], srcs[n][2], BoxCenter(b), DirectP2M(b, n - 1))
       ELSE DirectP2M(b, n - 1)

\* C6: for a parent box all of whose descendants have been shifted, the
\* multipole built by P2M about the child centers followed by M2M with
\* translation c - c_k equals, in every slot 0..MTERM-1, the multipole built
\* by P2M of every source directly about the parent center c.
C6_TwoLevelConsistency ==
  \A b \in Boxes \ Leaves :
    (Subtree(b) \ {b}) \subseteq shifted => multipole[b] = DirectP2M(b, Len(srcs))

\* The root has received two children holding sources, at order >= 3.
C6_Witness ==
  /\ UpDone
  /\ Porder >= 3
  /\ Children(Root) = {1, 2}
  /\ \E i, j \in 1..Len(srcs) : srcs[i][3] = 1 /\ srcs[j][3] = 2

\* -------------------------------------------------------------------- C2
\* C2: after Terms<0,0,D>::power has run on a vector whose slot 0 is 1 (the
\* auxiliary vector of L2L and L2P, D = Porder), every multi-index a with
\* |a| <= D satisfies C[I(a)] * a! = d^a for the displacement d.
C2_PowerBuilder ==
  last.op \in {"L2L", "L2P"} =>
    \A a \in MultiIdx(0, Porder) :
      RMul(last.C[Slot(a)], RInt(AlphaFact(a))) = Mono(last.dist, a)

\* The power builder has run at the largest degree on a displacement with
\* three non-zero components.
C2_Witness ==
  /\ last.op = "L2L"
  /\ Porder = MaxP
  /\ \A k \in 0..2 : last.dist[k] # RZero
  /\ last.C[0] = ROne

\* -------------------------------------------------------------------- C7
\* invR of M2L: M[0] / |translation|
InvR(M, dist) == RMul(M[0], RSqrt(RDiv(ROne, normSq(dist))))

\* The claim as stated: M2L adds to slot 0 of L exactly the sum over all i
\* with 0 <= i < MTERM of M[i] * C[i], where C[0] = M[0] * invR.
C7_AsStated ==
  last.op = "M2L" =>
    /\ last.C[0] = InvR(last.arg, last.dist)
    /\ local[last.box][0]
         = RAdd(last.before[0],
                RSum([i \in 0..(MTERM(Porder) - 1) |-> RMul(last.arg[i], last.C[i])],
                     0, MTERM(Porder) - 1))

\* C7: M2L adds to slot 0 of L exactly C[0] plus the sum over all i with
\* 1 <= i < MTERM of M[i] * C[i], where C is the derivative builder's vector
\* with C[0] = M[0] * invR.
C7_M2LSlot0 ==
  last.op = "M2L" =>
    /\ last.C[0] = InvR(last.arg, last.dist)
    /\ local[last.box][0]
         = RAdd(last.before[0],
                RAdd(last.C[0],
                     RSum([i \in 0..(MTERM(Porder) - 1) |-> RMul(last.arg[i], last.C[i])],
                          1, MTERM(Porder) - 1)))

\* An M2L of order >= 2 from a multipole whose slot 0 is neither 0 nor 1.
C7_Witness ==
  /\ last.op = "M2L"
  /\ Porder >= 2
  /\ last.arg[0] \notin {RZero, ROne}
  /\ last.C[0] # RZero

\* -------------------------------------------------------------------- C8
\* The sum over b, 1 <= |b|, |a + b| <= Porder, of M[I(b)] * C[I(a + b)].
M2LExpected(M, C, a) ==
  SumOver(MultiIdx(1, Porder - Deg(a)),
          [b \in MultiIdx(0, Porder) |->
             IF Deg(a) + Deg(b) <= Porder THEN RMul(M[Slot(b)], C[Slot(IdxAdd(a, b))])
             ELSE RZero])

\* The claim as stated: M2L adds to every slot L[I(a)], 1 <= |a| <= Porder,
\* exactly the sum over b, so that a slot of degree Porder receives nothing.
C8_AsStated ==
  last.op = "M2L" =>
    \A a \in MultiIdx(1, Porder) :
      local[last.box][Slot(a)]
        = RAdd(last.before[Slot(a)], M2LExpected(last.arg, last.C, a))

\* C8: M2L adds to every slot L[I(a)], 1 <= |a| <= Porder, exactly C[I(a)]
\* plus the sum over all b with 1 <= |b| and |a + b| <= Porder of
\* M[I(b)] * C[I(a + b)]; a slot of degree Porder receives exactly C[I(a)].
C8_M2LSlots ==
  last.op = "M2L" =>
    /\ \A a \in MultiIdx(1, Porder) :
         local[last.box][Slot(a)]
           = RAdd(last.before[Slot(a)],
                  RAdd(last.C[Slot(a)], M2LExpected(last.arg, last.C, a)))
    /\ \A a \in MultiIdx(Porder, Porder) :
         local[last.box][Slot(a)] = RAdd(last.before[Slot(a)], last.C[Slot(a)])

\* An M2L of the largest order, into a local that already holds an M2L,
\* whose coefficient vector is non-zero in a slot of degree Porder.
C8_Witness ==
  /\ last.op = "M2L"
  /\ Porder = MaxP
  /\ last.before[0] # RZero
  /\ \E a \in MultiIdx(Porder, Porder) : last.C[Slot(a)] # RZero
  /\ \E b \in MultiIdx(1, Porder - 1) : last.arg[Slot(b)] # RZero

\* -------------------------------------------------------------------- C9
\* The sum over b >= a, b # a, |b| <= Porder, of C[I(b-a)] * Lsource[I(b)]
\* with C[I(g)] = t^g / g!.
L2LExpected(Lsource, t, a) ==
  SumOver({b \in MultiIdx(Deg(a) + 1, Porder) : LeqIdx(a, b)},
          [b \in MultiIdx(0, Porder) |->
             IF LeqIdx(a, b) THEN RMul(TaylorC(t, IdxSub(b, a)), Lsource[Slot(b)])
             ELSE RZero])

\* C9: L2L adds to every slot Ltarget[I(a)], |a| <= Porder, exactly
\* Lsource[I(a)] plus the sum over all b >= a, b # a, |b| <= Porder (each
\* once) of C[I(b-a)] * Lsource[I(b)], where C[I(g)] = translation^g / g!.
C9_L2LIncrement ==
  last.op = "L2L" =>
    \A a \in MultiIdx(0, Porder) :
      local[last.box][Slot(a)]
        = RAdd(last.before[Slot(a)],
               RAdd(last.arg[Slot(a)], L2LExpected(last.arg, last.dist, a)))

\* An L2L of order >= 2 from a local that holds an M2L, non-zero in a slot
\* of the highest degree.
C9_Witness ==
  /\ last.op = "L2L"
  /\ Porder >= 2
  /\ \E b \in MultiIdx(Porder, Porder) : last.arg[Slot(b)] # RZero
  /\ \E a \in MultiIdx(1, Porder - 1) : L2LExpected(last.arg, last.dist, a) # RZero

\* ------------------------------------------------------------------- C10
\* The unit multi-index of axis k: x = 1, y = 2, z = 3.
UnitIdx(k) == [j \in 1..3 |-> IF j = k THEN 1 ELSE 0]

\* The sum over a, a_k >= 1, |a| <= Porder, of C[I(a - e_k)] * L[I(a)].
L2PExpected(Ls, d, k) ==
  SumOver({a \in MultiIdx(1, Porder) : a[k] >= 1},
          [a \in MultiIdx(0, Porder) |->
             IF a[k] >= 1 THEN RMul(TaylorC(d, IdxSub(a, UnitIdx(k))), Ls[Slot(a)])
             ELSE RZero])

\* C10: L2P, with C[I(g)] = (target - center)^g / g!, adds to result[0]
\* exactly L[0] plus the sum over 1 <= i < LTERM of C[i] * L[i], and to
\* result[k], for each axis k (x = 1, y = 2, z = 3), exactly the sum over
\* all a with a_k >= 1 and |a| <= Porder of C[I(a - e_k)] * L[I(a)].
C10_L2PIncrement ==
  last.op = "L2P" =>
    /\ result[0]
         = RAdd(last.before[0],
                RAdd(last.arg[0],
                     SumOver(MultiIdx(1, Porder),
                             [a \in MultiIdx(0, Porder) |->
                                RMul(TaylorC(last.dist, a), last.arg[Slot(a)])])))
    /\ \A k \in 1..3 :
         result[k] = RAdd(last.before[k], L2PExpected(last.arg, last.dist, k))
    /\ Slot(UnitIdx(1)) = 1 /\ Slot(UnitIdx(2)) = 2 /\ Slot(UnitIdx(3)) = 3

\* An L2P of order >= 2 on a local that holds an M2L, with a non-zero
\* contribution to every axis.
C10_Witness ==
  /\ last.op = "L2P"
  /\ Porder >= 2
  /\ last.arg[0] # RZero
  /\ \A k \in 1..3 : L2PExpected(last.arg, last.dist, k) # RZero
  /\ \A k \in 1..3 : result[k] # last.arg[k]

\* ------------------------------------------------------------------- C11
\* The amount M2L(M, L, dist) adds to slot k of the local vector Lt.
M2LAdds(M, Lt, dist, k) == RSub(M2L(Porder, M, Lt, dist)[k], Lt[k])

\* C11: M2P(M, center, target, result) adds to result[0..3] exactly the
\* amounts that M2L(M, L, target - center) adds to L[0..3], whatever L holds,
\* for every order Porder >= 1.
C11_M2PDegenerate ==
  last.op = "M2P" =>
    \A k \in 0..3 : \A b \in Boxes :
      RSub(result[k], last.before[k]) = M2LAdds(last.arg, local[b], last.dist, k)

\* An M2P of order >= 2 that adds a non-zero amount to each of the four
\* components, in a session whose root local already holds an M2L.
C11_Witness ==
  /\ last.op = "M2P"
  /\ Porder >= 2
  /\ local[Root][0] # RZero
  /\ \A k \in 0..3 : result[k] # last.before[k]

\* ------------------------------------------------------------------- C12
\* d^a (1/|x|) = Q_a(x) / |x|^(2|a|+1) with a homogeneous polynomial Q_a of
\* degree |a|; a polynomial is the function from monomials to its integer
\* coefficients.  From the quotient rule,
\*   Q_(a+e_k) = |x|^2 * d_k Q_a - (2|a|+1) * x_k * Q_a.
PolyCoef(Q, m) == IF m[1] < 0 \/ m[2] < 0 \/ m[3] < 0 THEN 0 ELSE Q[m]

\* The coefficient of the monomial m in |x|^2 * d_k Q - (2n+1) * x_k * Q.
NextPolyCoef(Q, n, k, m) ==
  LET dk(mu) == IF mu[1] < 0 \/ mu[2] < 0 \/ mu[3] < 0 THEN 0
                ELSE (mu[k] + 1) * PolyCoef(Q, IdxAdd(mu, UnitIdx(k)))
  IN  dk(IdxSub(m, <<2, 0, 0>>)) + dk(IdxSub(m, <<0, 2, 0>>)) + dk(IdxSub(m, <<0, 0, 2>>))
        - (2 * n + 1) * PolyCoef(Q, IdxSub(m, UnitIdx(k)))

RECURSIVE DerivPoly(_)
DerivPoly(a) ==
  IF Deg(a) = 0 THEN [m \in MultiIdx(0, MaxP) |-> IF Deg(m) = 0 THEN 1 ELSE 0] @@ <<>>
  ELSE LET k == CHOOSE j \in 1..3 : a[j] > 0
           Q == DerivPoly(IdxSub(a, UnitIdx(k)))
       IN  [m \in MultiIdx(0, MaxP) |->
              IF Deg(m) = Deg(a) THEN NextPolyCoef(Q, Deg(a) - 1, k, m) ELSE 0] @@ <<>>

\* The partial derivative d^a (1/|x|) at x = d.
DerivAt(a, d) ==
  LET Q == DerivPoly(a)
  IN  RMul(SumOver(MultiIdx(Deg(a), Deg(a)),
                   [m \in MultiIdx(0, Porder) |-> RMul(RInt(Q[m]), Mono(d, m))]),
           RPow(InvNorm(d), 2 * Deg(a) + 1))

\* getCoef has returned, and it was called with C[0] = 1 / |d|.
CoefDone ==
  /\ build.kind = "getCoef"
  /\ build.phase = "done"
  /\ build.C[0] = InvNorm(build.dist)

\* C12: after getCoef<P> has populated C from a displacement d # 0 with
\* C[0] = 1/|d|, every slot holds C[I(a)] = d^a (1/|x|) at x = d, |a| <= P;
\* in particular C[I(e_k)] = -d_k / R^3, C[I(2 e_k)] = 3 d_k^2 / R^5 - 1 / R^3
\* and C[I(e_j + e_k)] = 3 d_j d_k / R^5 for j # k.
C12_DerivativeBuilder ==
  CoefDone =>
    LET d == build.dist
        r == InvNorm(d)
        Cof(a) == build.C[Slot(a)]
    IN  /\ \A a \in MultiIdx(0, build.D) : Cof(a) = DerivAt(a, d)
        /\ \A k \in 1..3 : Cof(UnitIdx(k)) = RNeg(RMul(d[k - 1], RPow(r, 3)))
        /\ build.D >= 2 =>
             \A j, k \in 1..3 :
               Cof(IdxAdd(UnitIdx(j), UnitIdx(k)))
                 = RSub(RMul(RInt(3), RMul(RMul(d[j - 1], d[k - 1]), RPow(r, 5))),
                        IF j = k THEN RPow(r, 3) ELSE RZero)

\* getCoef has returned at the largest order, called with C[0] = 1/|d| for a
\* displacement with three non-zero components.
C12_Witness ==
  /\ CoefDone
  /\ build.D = MaxP
  /\ \A k \in 0..2 : build.dist[k] # RZero
  /\ \E a \in MultiIdx(MaxP, MaxP) : build.C[Slot(a)] # RZero

\* ------------------------------------------------------------------- C13
\* The claim as stated: after getCoef<P> has populated C from a displacement
\* d # 0 with C[0] = 1/R, every slot holds C[I(a)] = a! * d^a (1/R) at d.
C13_AsStated ==
  CoefDone =>
    \A a \in MultiIdx(0, build.D) :
      build.C[Slot(a)] = RMul(RInt(AlphaFact(a)), DerivAt(a, build.dist))

\* C13: the a! weights undo the 1/a! of the chain recursion: after getCoef<P>
\* has populated C from a displacement d # 0 with C[0] = 1/R, the chain
\* recursion had left A[I(a)] = d^a (1/R) / a! in every slot, and every slot
\* holds C[I(a)] = a! * A[I(a)], which is d^a (1/R) at d, for all |a| <= P.
C13_Weighting ==
  CoefDone =>
    \A a \in MultiIdx(0, build.D) :
      /\ RMul(RInt(AlphaFact(a)), build.A[Slot(a)]) = DerivAt(a, build.dist)
      /\ build.C[Slot(a)] = RMul(RInt(AlphaFact(a)), build.A[Slot(a)])

\* getCoef has returned with a non-zero value in a slot whose a! is not 1.
C13_Witness ==
  /\ CoefDone
  /\ build.D >= 3
  /\ \E a \in MultiIdx(2, build.D) :
       /\ AlphaFact(a) > 1
       /\ build.C[Slot(a)] # RZero
       /\ build.C[Slot(a)] # build.A[Slot(a)]

\* ------------------------------------------------------------------- C14
\* C14: whenever R^2 = |s - t|^2 is below 1e-8, and in particular whenever
\* t = s, operator()(t, s) returns (0, 0, 0, 0), all four components exactly
\* zero, and no returned component is infinite or NaN.
C14_SelfInteraction ==
  last.op = "K" =>
    /\ RLess(normSq(last.dist), SelfEps) => last.C = [k \in 0..3 |-> RZero]
    /\ last.arg[1] = last.arg[2] => last.C = [k \in 0..3 |-> RZero]
    /\ \A k \in 0..3 : last.C[k][2] # 0

\* The kernel has been evaluated at t = s (R^2 = 0, where 1.0 / R2 is
\* infinite).
C14_Witness ==
  /\ last.op = "K"
  /\ last.arg[1] = last.arg[2]
  /\ normSq(last.dist) = RZero
  /\ Recip(normSq(last.dist)) = Infinity

\* ------------------------------------------------------------------- C15
\* The output vector of the last call, as it is now.
LastOutput ==
  CASE last.op \in {"P2M", "M2M"} -> multipole[last.box]
    [] last.op \in {"M2L", "L2L"} -> local[last.box]
    [] OTHER -> result

\* The last call made again, with the same input arguments, on the output
\* vector X.
LastCallOn(X) ==
  CASE last.op = "P2M" ->
       P2M(Porder, PtSub(Pt(0, 0, 0), last.dist), last.q, Pt(0, 0, 0), X)
    [] last.op = "M2M" -> M2M(Porder, last.arg, X, last.dist)
    [] last.op = "M2L" -> M2L(Porder, last.arg, X, last.dist)
    [] last.op = "M2P" -> M2P(Porder, last.arg, Pt(0, 0, 0), last.dist, X)
    [] last.op = "L2L" -> L2L(Porder, last.arg, X, last.dist)
    [] last.op = "L2P" -> L2P(Porder, last.arg, Pt(0, 0, 0), last.dist, X)

\* The zeroed vector of the size of V, and 2 * V.
ZeroLike(V) == [i \in DOMAIN V |-> RZero]
Twice(V) == [i \in DOMAIN V |-> RMul(RInt(2), V[i])]

\* C15: for each of P2M, M2M, M2L, M2P, L2L and L2P the amount added to every
\* output slot depends on the input arguments only, not on what the output
\* vector held (it is the amount the call adds to a zeroed vector), and the
\* same call made a second time leaves every output slot at its prior content
\* plus twice that amount.
C15_AccumulatorOnly ==
  last.op \in {"P2M", "M2M", "M2L", "M2P", "L2L", "L2P"} =>
    LET inc == LastCallOn(ZeroLike(last.before))
    IN  /\ LastOutput = VecAdd(last.before, inc)
        /\ LastCallOn(LastOutput) = VecAdd(last.before, Twice(inc))

\* The same M2L has been made twice on one local vector, at the largest
\* order: the vector held the first call's amount when the second started.
C15_Witness ==
  /\ last.op = "M2L"
  /\ Porder = MaxP
  /\ calls = 2
  /\ last.before = LastCallOn(ZeroLike(last.before))
  /\ \A i \in DOMAIN last.before : last.before[i] # RZero

\* ------------------------------------------------------------------- C16
\* The invocation th run alone, from beginning to end, on the locals Ls.
RunAlone(th, Ls) ==
  [Ls EXCEPT ![th.tgt] =
     IF th.op = "M2L" THEN M2L(Porder, multipole[th.src], Ls[th.tgt], th.dist)
     ELSE L2L(Porder, Ls[th.src], Ls[th.tgt], th.dist)]

\* The locals before any invocation began.
LocalsAtStart == [b \in Boxes |-> SampleL(b)]

\* The final locals of the invocations run one after another, in the order
\* first, second.
OneAfterAnother(first, second) ==
  RunAlone(threads[second], RunAlone(threads[first], LocalsAtStart))

AllReturned ==
  /\ threads # <<>>
  /\ \A p \in 1..2 : threads[p].pc = Len(threads[p].prog) + 1

\* No two invocations write the same output vector.
DistinctOutputs == threads[1].tgt # threads[2].tgt

\* No invocation reads a vector that another invocation writes.
InputsNotWritten ==
  \A p, q \in 1..2 :
    (p # q /\ threads[p].op = "L2L") => threads[p].src # threads[q].tgt

\* The claim as stated: whenever the invocations write pairwise distinct
\* output vectors, every interleaving of their reads and writes ends in the
\* final state of the invocations run one after another.
C16_AsStated ==
  (AllReturned /\ DistinctOutputs) =>
    \/ local = OneAfterAnother(1, 2)
    \/ local = OneAfterAnother(2, 1)

\* C16: whenever the invocations write pairwise distinct output vectors and
\* none of them reads a vector that another one writes (they may read the
\* same multipole or local vector), every interleaving of their reads and
\* writes ends in the final state of the invocations run one after another,
\* in either order; the private vectors C are the only other state written.
C16_RaceFreedom ==
  (AllReturned /\ DistinctOutputs /\ InputsNotWritten) =>
    /\ local = OneAfterAnother(1, 2)
    /\ local = OneAfterAnother(2, 1)
    /\ multipole = [b \in Boxes |-> SampleM(b)]
    /\ result = VecZero(4)

\* Two M2L that read one multipole have both returned, at order >= 2, and
\* each has changed its own local vector.
C16_Witness ==
  /\ AllReturned
  /\ DistinctOutputs
  /\ InputsNotWritten
  /\ Porder >= 2
  /\ threads[1].op = "M2L"
  /\ threads[2].op = "M2L"
  /\ threads[1].src = threads[2].src
  /\ local[threads[1].tgt] # LocalsAtStart[threads[1].tgt]
  /\ local[threads[2].tgt] # LocalsAtStart[threads[2].tgt]

\* ------------------------------------------------------------------- C17
\* The traversal that the writes and reads of build belong to.
Traversal ==
  CASE build.phase # "done" -> build.phase
    [] build.phase = "done" /\ build.kind = "getCoef" -> "scale"
    [] OTHER -> "power"

\* The traversal started at Terms<0,0,D> has returned to the builder.
TraversalOver == build.kind # "none" /\ ~build.down /\ build.stack = <<>>

\* C17: the recursion started at Terms<0,0,D> (power, derivative and scale
\* alike) writes the slots 1, 2, ..., (D+1)(D+2)(D+3)/6 - 1 in strictly
\* ascending order, each exactly once, and never slot 0; every slot read by a
\* write of the power and of the derivative recurrence is slot 0 or a slot
\* written earlier in the same traversal (a write of scale reads the slot it
\* writes, and no other).
C17_TraversalOrder ==
  build.kind # "none" =>
    /\ \A i \in 1..Len(build.writes) : build.writes[i] = i
    /\ TraversalOver =>
         Len(build.writes) = (((build.D + 1) * (build.D + 2) * (build.D + 3)) \div 6) - 1
    /\ Len(build.reads) = Len(build.writes)
    /\ \A i \in 1..Len(build.reads) :
         /\ build.reads[i] # {}
         /\ Traversal \in {"power", "derivative"} =>
              build.reads[i] \subseteq ({0} \cup {build.writes[j] : j \in 1..(i - 1)})
         /\ Traversal = "scale" => build.reads[i] = {build.writes[i]}

\* Terms<0,0,D>::derivative has returned at the largest order, with a write
\* that read three slots or more.
C17_Witness ==
  /\ TraversalOver
  /\ build.phase = "derivative"
  /\ build.D = MaxP
  /\ Len(build.writes) = LTERM(MaxP) - 1
  /\ \E i \in 1..Len(build.reads) : Cardinality(build.reads[i]) >= 3

\* ------------------------------------------------------------------- C18
SixOperators == {"P2M", "M2M", "M2L", "M2P", "L2L", "L2P"}

\* The number of slots of a vector of kind v.
SlotsOf(v) ==
  CASE v = "M" -> MTERM(Porder)
    [] v = "L" -> LTERM(Porder)
    [] OTHER -> 4

\* The largest degree a multi-index on a vector of kind v may have.
DegreeOf(v) ==
  CASE v = "M" -> Porder - 1
    [] v = "L" -> Porder
    [] OTHER -> 1

\* C18: every slot index the six operators use is in range: a multi-index
\* on a multipole vector (or on the C of P2M and M2M) has degree <= Porder-1
\* and an index below MTERM, one on a local vector or on a C of LTERM slots
\* has degree <= Porder and an index below LTERM, no component of a
\* multi-index is negative (a - b in M2M included), a result is used at the
\* indices 0..3 only, and after the call every vector has the slots it had.
C18_TruncationDomain ==
  last.op \in SixOperators =>
    /\ \A acc \in Index_acc(last.op, Porder) :
         /\ \A j \in 1..3 : acc[2][j] >= 0
         /\ Deg(acc[2]) <= DegreeOf(acc[1])
         /\ Slot(acc[2]) \in 0..(SlotsOf(acc[1]) - 1)
    /\ \A n \in SeqRange(Frames(<<0, 0, Porder - 1>>)) :
         \A t \in M2MSum_idx(n[1], n[2], n[3], n[1], n[2], n[3]) :
           \A j \in 1..3 : t[1][j] = n[j] - t[2][j] /\ t[1][j] >= 0
    /\ \A acc \in Slot_acc(last.op, Porder) : acc[2] \in 0..(SlotsOf(acc[1]) - 1)
    /\ \A b \in Boxes :
         /\ DOMAIN multipole[b] = 0..(MTERM(Porder) - 1)
         /\ DOMAIN local[b] = 0..(LTERM(Porder) - 1)
    /\ DOMAIN result = 0..3

\* An M2L at the largest order: it uses a multipole slot of degree Porder-1
\* and a slot of degree Porder of C.
C18_Witness ==
  /\ last.op = "M2L"
  /\ Porder = MaxP
  /\ \E acc \in Index_acc("M2L", Porder) : acc[1] = "M" /\ Deg(acc[2]) = Porder - 1
  /\ \E acc \in Index_acc("M2L", Porder) : acc[1] = "L" /\ Deg(acc[2]) = Porder

\* ------------------------------------------------------------------- C19
\* al - m * e_a, for the axis a (0 = x, 1 = y, 2 = z)
Lower(al, a, m) == [j \in 1..3 |-> IF j = a + 1 THEN al[j] - m ELSE al[j]]

\* The terms of the axis a in the recurrence of al on the vector C:
\* (1-2n) d_a C[I(al - e_a)] when al_a >= 1, (1-n) C[I(al - 2 e_a)] when
\* al_a >= 2.
AxisTerms(al, a, C, d) ==
  RAdd(IF al[a + 1] >= 1
       THEN RMul(RMul(RInt(1 - 2 * Deg(al)), d[a]), C[Slot(Lower(al, a, 1))])
       ELSE RZero,
       IF al[a + 1] >= 2
       THEN RMul(RInt(1 - Deg(al)), C[Slot(Lower(al, a, 2))])
       ELSE RZero)

\* The DerivativeTerm instantiations of the recurrence of al.
AxisTermSet(al) ==
  {<<Lower(al, a, 1)[1], Lower(al, a, 1)[2], Lower(al, a, 1)[3], a>> :
     a \in {a \in 0..2 : al[a + 1] >= 1}}
    \cup {<<Lower(al, a, 2)[1], Lower(al, a, 2)[2], Lower(al, a, 2)[3], -1>> :
            a \in {a \in 0..2 : al[a + 1] >= 2}}

\* The last write of the traversal under way is one of Terms<..>::derivative.
DerivativeWritten ==
  build.kind = "getCoef" /\ build.phase = "derivative" /\ build.writes # <<>>

\* The multi-index of the slot written last.
LastWritten == IdxOf[build.writes[Len(build.writes)]]

\* C19: the value that Terms<al>::derivative writes to C[I(al)], n = |al| >= 1,
\* is (invR2 / n) times the sum over the three axes a of (1-2n) d_a C[I(al-e_a)]
\* when al_a >= 1 and of (1-n) C[I(al-2e_a)] when al_a >= 2, on C as it was
\* before the write; DerivativeSum<al>::loop adds up these terms and no others,
\* and the write changes no other slot.
C19_RecurrenceStructure ==
  DerivativeWritten =>
    LET al == LastWritten
        C0 == build.before
        sum == RAdd(RAdd(AxisTerms(al, 0, C0, build.dist), AxisTerms(al, 1, C0, build.dist)),
                    AxisTerms(al, 2, C0, build.dist))
    IN  /\ Deg(al) >= 1
        /\ build.C[Slot(al)] = RMul(RDiv(build.invR2, RInt(Deg(al))), sum)
        /\ DerivativeSum_terms(al[1], al[2], al[3], al[1], al[2], al[3], 5) = AxisTermSet(al)
        /\ \A i \in DOMAIN build.C : i # Slot(al) => build.C[i] = C0[i]

\* The slot of (0,1,2) has been written at the largest order, from a
\* displacement with no zero component: its recurrence has the three terms
\* d_y C[I(0,0,2)], d_z C[I(0,1,1)] and C[I(0,1,0)], none of them 0.
C19_Witness ==
  /\ DerivativeWritten
  /\ Porder = MaxP
  /\ LastWritten = <<0, 1, 2>>
  /\ \A j \in 0..2 : build.dist[j] # RZero
  /\ Cardinality(AxisTermSet(LastWritten)) = 3
  /\ \A t \in AxisTermSet(LastWritten) : build.before[IndexI(t[1], t[2], t[3])] # RZero
  /\ build.C[Slot(LastWritten)] # RZero

\* ------------------------------------------------------------------- C20
\* The slots of the degrees 1..P of the vector C of getCoef<P>.
HigherSlots == 1..(LTERM(build.D) - 1)

\* The state of getCoef<P> in each of its two phases.
TwoPhases ==
  build.kind = "getCoef" =>
    /\ build.phase = "derivative" =>
         /\ build.A = <<>>
         /\ \A i \in HigherSlots : (build.C[i] = Uninit) <=> (i > Len(build.writes))
    /\ build.phase \in {"scale", "done"} =>
         /\ DOMAIN build.A = 0..(LTERM(build.D) - 1)
         /\ \A i \in DOMAIN build.A : build.A[i] # Uninit
         /\ build.C[0] = build.A[0]
         /\ \A i \in 1..Len(build.writes) : build.writes[i] = i
         /\ \A i \in HigherSlots :
              build.C[i] = IF i <= Len(build.writes)
                           THEN RMul(build.A[i], RInt(AlphaFact(IdxOf[i])))
                           ELSE build.A[i]
    /\ build.phase = "done" => Len(build.writes) = LTERM(build.D) - 1

\* Once Phase B has started, no step of Phase A follows.
NoPhaseAAfterB ==
  (build.kind = "getCoef" /\ build.phase \in {"scale", "done"}) =>
    (build'.kind = "getCoef" /\ build'.phase \in {"scale", "done"})

\* C20: in getCoef<P>, while Terms<0,0,P>::derivative (Phase A) runs no slot
\* has been scaled: scale has not begun, the slots written so far hold the
\* values of the recurrence and the others hold nothing yet.  When
\* Terms<0,0,P>::scale (Phase B) starts, Phase A has written every slot of
\* degree 1..P; Phase B multiplies each of these slots by its al! =
\* nx! ny! nz!, once, in ascending order, and leaves slot 0 as it was; when
\* getCoef returns, every slot of degree 1..P has been multiplied exactly once,
\* and once Phase B has started no step of Phase A follows.
C20_TwoPhaseOrdering == [](TwoPhases) /\ [][NoPhaseAAfterB]_vars

\* getCoef<MaxP> has returned: the slot of (0,1,2), of weight 2, holds twice
\* the value Phase A left in it, and that value is not 0.
C20_Witness ==
  /\ build.kind = "getCoef"
  /\ build.phase = "done"
  /\ build.D = MaxP
  /\ build.A[Slot(<<0, 1, 2>>)] # RZero
  /\ build.C[Slot(<<0, 1, 2>>)] = RMul(RInt(2), build.A[Slot(<<0, 1, 2>>)])
  /\ build.C[Slot(<<0, 1, 2>>)] # build.A[Slot(<<0, 1, 2>>)]

\* ------------------------------------------------------------------- C21
\* k * V, elementwise.
VecScale(k, V) == [i \in DOMAIN V |-> RMul(RInt(k), V[i])]

\* What M2L adds to the slots of a local vector for the multipole M and the
\* translation of the last call.
M2LIncrement(M) == M2L(Porder, M, [i \in 0..(LTERM(Porder) - 1) |-> RZero], last.dist)

\* The scalars of the homogeneity check.
Scalars == {-1, 0, 2, 3}

\* C21: M2L is linear in its multipole argument: for the multipole M of the
\* last M2L and the multipole M2 of any box, the increment for M + M2 is the
\* sum of the increments for M and for M2, and the increment for k * M is k
\* times the increment for M.
C21_AsStated ==
  last.op = "M2L" =>
    /\ local[last.box] = VecAdd(last.before, M2LIncrement(last.arg))
    /\ \A b \in Boxes :
         M2LIncrement(VecAdd(last.arg, multipole[b]))
           = VecAdd(M2LIncrement(last.arg), M2LIncrement(multipole[b]))
    /\ \A k \in Scalars :
         M2LIncrement(VecScale(k, last.arg)) = VecScale(k, M2LIncrement(last.arg))

\* ------------------------------------------------------------------- C22
\* c + tau for points
PtAdd(a, b) == (0 :> RAdd(a[0], b[0])) @@ (1 :> RAdd(a[1], b[1])) @@ (2 :> RAdd(a[2], b[2]))

\* The centers c of the expansion that is shifted and the targets t.
ShiftCenters == {Pt(0, 0, 0), Pt(1, -1, 2)}
ShiftTargets == {Pt(2, 1, -1), Pt(-1, 0, 3)}

\* The local expansion L2L makes of the source of the last L2L on a zeroed
\* vector.
Reexpanded ==
  L2L(Porder, last.arg, [i \in 0..(LTERM(Porder) - 1) |-> RZero], last.dist)

\* The four result components of L2P of the expansion Ls about c at t, on a
\* zeroed result.
Evaluated(Ls, c, t) == L2P(Porder, Ls, c, t, [i \in 0..3 |-> RZero])

\* C22: L2L is an exact re-expansion: for the local expansion L and the
\* translation tau of an L2L call, any center c and any target t, L2L(L, L',
\* tau) on a zeroed L' followed by L2P(L', c + tau, t, r') on a zeroed r' gives
\* the four components that L2P(L, c, t, r) gives on a zeroed r; the L2L call
\* itself has added that L' to its target.
C22_ExactReexpansion ==
  last.op = "L2L" =>
    Bind(Reexpanded, LAMBDA Lp :
      /\ local[last.box] = VecAdd(last.before, Lp)
      /\ \A c \in ShiftCenters, t \in ShiftTargets :
           Evaluated(Lp, PtAdd(c, last.dist), t) = Evaluated(last.arg, c, t))

\* An L2L at the largest order of a local expansion with no zero slot: its
\* re-expansion differs from the source in every slot below degree P, and
\* evaluating the source about the new center gives other results.
C22_Witness ==
  /\ last.op = "L2L"
  /\ Porder = MaxP
  /\ \A i \in DOMAIN last.arg : last.arg[i] # RZero
  /\ Reexpanded[0] # last.arg[0]
  /\ \E c \in ShiftCenters, t \in ShiftTargets :
       \A k \in 0..3 :
         /\ Evaluated(last.arg, c, t)[k] # RZero
         /\ Evaluated(last.arg, PtAdd(c, last.dist), t)[k] # Evaluated(last.arg, c, t)[k]

\* ------------------------------------------------------------------- C23
\* The state after a call of the dispatcher.
Dispatched ==
  /\ last.op = "M2M" =>
       /\ has_M2M
       /\ last.dist = PtSub(BoxCenter(last.box), BoxCenter(last.src))
       /\ multipole[last.src] = last.arg
       /\ \A a \in MultiIdx(0, Porder - 1) :
            multipole[last.box][Slot(a)]
              = RAdd(last.before[Slot(a)],
                     M2MExpected(multipole[last.src],
                                 PtSub(BoxCenter(last.box), BoxCenter(last.src)), a))
  /\ has_M2M => exits = <<>>
  /\ exits # <<>> =>
       /\ exits = <<1>>
       /\ calls = 0
       /\ \A b \in Boxes :
            multipole[b] = SampleM(b) /\ local[b] = [i \in 0..(LTERM(Porder) - 1) |-> RZero]

\* One call of the dispatcher.
DispatchStep ==
  /\ exits = <<>>
  /\ has_M2M =>
       /\ calls' = calls + 1
       /\ last'.op = "M2M"
       /\ last'.before = multipole[last'.box]
       /\ last'.arg = multipole[last'.src]
       /\ \A b \in Boxes \ {last'.box} : multipole'[b] = multipole[b]
       /\ local' = local
       /\ exits' = <<>>
  /\ ~has_M2M =>
       /\ multipole' = multipole
       /\ local' = local
       /\ calls' = calls
       /\ exits' = <<1>>

\* C23: a call of the M2M dispatcher on a source box and a target box makes
\* one call of the kernel's M2M: the source box's multipole is its source and
\* stays as it was, the target box's multipole receives the M2M increment for
\* the translation center(target) - center(source), and no other expansion
\* changes; when the kernel has no matching M2M the call changes no expansion
\* and the process exits with status 1, after which nothing runs.
C23_Dispatcher == [](Dispatched) /\ [][DispatchStep]_vars

\* The dispatcher has shifted a multipole holding charge into a target that
\* was not zero, twice, at the largest order.
C23_Witness ==
  /\ last.op = "M2M"
  /\ has_M2M
  /\ Porder = MaxP
  /\ calls = 2
  /\ last.arg[0] # RZero
  /\ last.before[0] # RZero
  /\ multipole[last.box] # last.before
  /\ \A k \in 0..2 : last.dist[k] # RZero

====
